---- MODULE Spec2Model ----
(***************************************************************************)
(* A model of the data node of the distributed vector database:            *)
(* VectorNodeHandler (src/src/datanode/handler.py) with its WALManager     *)
(* (src/src/utils/wal_manager.py).  The in-memory state of the handler,    *)
(* the files it keeps on disk and the wall clock are the variables; every  *)
(* RPC handler, the exit hook and the constructor are operators over a     *)
(* record of that state, applied by the actions.                           *)
(***************************************************************************)
EXTENDS Integers, Sequences, FiniteSets, TLC

VARIABLES
    hnsw_index,        \* in memory: [items: hnsw_id -> vector, max_elements]
    next_hnsw_id,      \* in memory: the id counter
    deleted_ids,       \* in memory: the soft-deleted (tombstoned) ids
    current_log_file,  \* in memory: WALManager.current_log_file (segment timestamp)
    checkpoint_ts,     \* wal/checkpoint/checkpoint_ts.txt and its in-memory copy
    leveldb,           \* on disk: key -> [hnsw_id, vector, metadata]
    index_bin,         \* on disk: hnsw_index/index.bin
    deleted_ids_file,  \* on disk: deleted_ids.json
    wal_files,         \* on disk: wal_<ts>.log, segment timestamp -> entries
    wal_tmp,           \* on disk: wal_<ts>.log.tmp, segment timestamp -> entries
    checkpoint,        \* on disk: the newest checkpoint_<ts> directory
    wal_applied,       \* history: the live set that the entries which reached a
                       \* WAL segment, applied in order to an empty node, produce
    now,               \* the wall clock
    up,                \* the process is running (its constructor returned)
    pc,                \* worker thread -> its position in put
    index_lock,        \* the owner of VectorNodeHandler.index_lock, 0 when free
    request,           \* worker thread -> the VectorData of its put
    new_hnsw_id,       \* worker thread -> the local new_hnsw_id of its put
    response,          \* worker thread -> the response of its put
    alive,             \* the data nodes whose server is listening
    znodes,            \* ZooKeeper /nodes: node_id -> the session that owns the
                       \* ephemeral record
    node_cache,        \* ZKManager.node_cache of the coordinator, in dict order
    shards,            \* ZooKeeper /shards: shard_id -> [master, slaves]
    registered,        \* history: the member list that the last register_node read
    dn,                \* data node -> the state of its VectorNodeHandler
    acked,             \* history: key -> the write that coordinator.put
                       \* acknowledged last, and the master that took it
    writes,            \* history: the number of writes the coordinator routed
    pool,              \* RPCClientPool.pool: node_id -> idle clients (transports)
    transports,        \* transport -> "open" or "closed", in creation order
    held,              \* coordinator worker -> the client it has borrowed
    watch,             \* the child watch of the coordinator's ZKManager on /nodes
    registering,       \* coordinator worker -> its position in register_node
    sync               \* the forwarding of one write between the replicas

\* the worker threads' variables
threadVars == <<pc, index_lock, request, new_hnsw_id, response>>

\* the single data node of Spec, SpecCrash and SpecThreads
nodeVars == <<hnsw_index, next_hnsw_id, deleted_ids, current_log_file, checkpoint_ts,
              leveldb, index_bin, deleted_ids_file, wal_files, wal_tmp, checkpoint,
              wal_applied, now, up>>

\* the coordinator, ZooKeeper and the data nodes behind the coordinator
zkVars == <<alive, znodes, node_cache, shards, registered>>
dataVars == <<dn, acked, writes>>
poolVars == <<pool, transports, held>>
clusterVars == <<zkVars, dataVars, poolVars, watch, registering, sync>>

\* the watch, the registration workers and the replica forwarding
sideVars == <<watch, registering, sync>>

\* what the requests of a single client leave alone
auxVars == <<threadVars, clusterVars>>

vars == <<hnsw_index, next_hnsw_id, deleted_ids, current_log_file, checkpoint_ts,
          leveldb, index_bin, deleted_ids_file, wal_files, wal_tmp, checkpoint,
          wal_applied, now, up, auxVars>>

---------------------------------------------------------------------------
(* Bounds of the model *)

\* the clock runs from 0 to MaxTime
MaxTime == 2
\* a client PUT is accepted while next_hnsw_id < MaxId
MaxId == 4
\* a kill is placed after at most this many disk writes of an operation (a
\* PUT that overwrites, cleans the WAL, rebuilds and snapshots makes 14)
MaxCrashPoint == 14
\* a crash may leave a .tmp segment behind while it holds fewer entries than this
MaxTmpLen == 1
\* the coordinator routes at most this many writes
MaxWrites == 4
\* the pool opens at most this many transports
MaxTransports == 3

(* Program constants, scaled down so that the model reaches them *)

\* Config/storage_config.py VECTOR_DIM = 512
VECTOR_DIM == 2
\* init_index(max_elements=1000000), load_index(..., max_elements=1000000)
InitMaxElements == 5
\* init_index(max_elements=len(valid_vectors) + 10000) in the rebuild
RebuildHeadroom == 1
\* if self.next_hnsw_id % 200000 == 0: rebuild
RebuildInterval == 4
\* if self.next_hnsw_id % 2000 == 0: save_checkpoint
CheckpointInterval == 2
\* Config/storage_config.py SHARD_COUNT = 4
SHARD_COUNT == 4
\* Config/storage_config.py REPLICA_COUNT = 2
REPLICA_COUNT == 2
\* self.max_size = RPC_POOL_SIZE
RPC_POOL_SIZE == 1
\* self.max_log_size = 10 MiB, counted in entries' size units
max_log_size == 3
\* self.max_log_age = 7 days, counted in clock ticks
max_log_age == 1
\* if log_ts % 100 == 0: clean the expired logs
CleanPeriod == 2
\* top_k = req.top_k if req.top_k > 0 else 5
DefaultTopK == 5
\* fuel of an operation that is not interrupted by a crash
NoCrash == MaxCrashPoint + 100

---------------------------------------------------------------------------
(* Inputs *)

KeyOrder == <<"a", "b">>
Keys == {KeyOrder[i] : i \in 1..Len(KeyOrder)}

\* The components of a vector as the client sends them are doubles, modelled
\* by 0..3; np.float32 keeps the even ones and rounds the odd ones down.
F32(x) == 2 * (x \div 2)
F32Vec(v) == [i \in 1..Len(v) |-> F32(v[i])]
IsF32Vec(v) == F32Vec(v) = v

\* a metadata map is modelled by the set of its <<key, value>> pairs
EmptyMap == {}
Meta1 == {<<"t", "x">>}
\* the optional metadata of a VectorData: << >> is None, <<m>> is the map m
NoMeta == << >>
\* the vector of a WAL entry that has none (json null)
NoVector == << >>

\* The (vector, metadata) payloads of the PUT requests: a single-precision
\* vector with metadata, a double-precision vector without metadata, and a
\* vector of a wrong dimension
Payloads == {<< <<2, 0>>, <<Meta1>> >>, << <<1, 2>>, NoMeta >>, << <<2>>, NoMeta >>}
QueryVectors == {<<2, 0>>, <<0, 2>>}

TopKs == {0, 1, 2}

---------------------------------------------------------------------------
(* Partial functions *)

Upd(f, k, v) == [x \in (DOMAIN f) \cup {k} |-> IF x = k THEN v ELSE f[x]]
Rem(f, k) == [x \in (DOMAIN f) \ {k} |-> f[x]]
EmptyFn == [x \in {} |-> 0]
MinOf(S) == CHOOSE x \in S : \A y \in S : x <= y
MaxOf(S) == CHOOSE x \in S : \A y \in S : x >= y

---------------------------------------------------------------------------
(* The state record the handlers work on *)

State(fuel) ==
    [hnsw_index |-> hnsw_index, next_hnsw_id |-> next_hnsw_id,
     deleted_ids |-> deleted_ids, current_log_file |-> current_log_file,
     checkpoint_ts |-> checkpoint_ts, leveldb |-> leveldb, index_bin |-> index_bin,
     deleted_ids_file |-> deleted_ids_file, wal_files |-> wal_files,
     wal_tmp |-> wal_tmp, checkpoint |-> checkpoint, wal_applied |-> wal_applied,
     exc |-> FALSE, fuel |-> fuel, ret |-> "none"]

Install(s) ==
    /\ hnsw_index' = s.hnsw_index
    /\ next_hnsw_id' = s.next_hnsw_id
    /\ deleted_ids' = s.deleted_ids
    /\ current_log_file' = s.current_log_file
    /\ checkpoint_ts' = s.checkpoint_ts
    /\ leveldb' = s.leveldb
    /\ index_bin' = s.index_bin
    /\ deleted_ids_file' = s.deleted_ids_file
    /\ wal_files' = s.wal_files
    /\ wal_tmp' = s.wal_tmp
    /\ checkpoint' = s.checkpoint
    /\ wal_applied' = s.wal_applied

\* an exception is propagating, or the process was killed (no fuel left)
Halted(s) == s.exc \/ s.fuel = 0
Raise(s) == IF Halted(s) THEN s ELSE [s EXCEPT !.exc = TRUE]
Ret(s, r) == IF s.fuel = 0 THEN [s EXCEPT !.ret = "killed"]
             ELSE IF s.exc THEN [s EXCEPT !.ret = "exc"]
             ELSE [s EXCEPT !.ret = r]

---------------------------------------------------------------------------
(* hnswlib.Index *)

NoIndexFile == [exists |-> FALSE, items |-> EmptyFn, max_elements |-> 0]
NewIndex(max) == [items |-> EmptyFn, max_elements |-> max]
get_current_count(idx) == Cardinality(DOMAIN idx.items)

\* add_items of one vector: an existing label is updated in place, a new label
\* raises RuntimeError when the index is full
hnsw_add_item(s, id, vec) ==
    IF Halted(s) THEN s
    ELSE IF id \in DOMAIN s.hnsw_index.items
         THEN [s EXCEPT !.hnsw_index.items = Upd(@, id, vec)]
    ELSE IF get_current_count(s.hnsw_index) >= s.hnsw_index.max_elements
         THEN Raise(s)
    ELSE [s EXCEPT !.hnsw_index.items = Upd(@, id, vec)]

save_index(s) ==
    IF Halted(s) THEN s
    ELSE [s EXCEPT !.index_bin = [exists |-> TRUE, items |-> s.hnsw_index.items,
                                  max_elements |-> s.hnsw_index.max_elements],
                   !.fuel = @ - 1]

---------------------------------------------------------------------------
(* LevelDB *)

leveldb_put(s, key, rec) ==
    IF Halted(s) THEN s
    ELSE [s EXCEPT !.leveldb = Upd(@, key, rec), !.fuel = @ - 1]

leveldb_delete(s, key) ==
    IF Halted(s) THEN s
    ELSE [s EXCEPT !.leveldb = Rem(@, key), !.fuel = @ - 1]

get_hnsw_id_by_key(s, key) ==
    IF key \in DOMAIN s.leveldb THEN s.leveldb[key].hnsw_id ELSE -1

\* the first key, in LevelDB's key order, whose entry carries the id; "" if none
get_key_by_hnsw_id(s, hnsw_id) ==
    LET hits == {i \in 1..Len(KeyOrder) :
                    /\ KeyOrder[i] \in DOMAIN s.leveldb
                    /\ s.leveldb[KeyOrder[i]].hnsw_id = hnsw_id}
    IN IF hits = {} THEN "" ELSE KeyOrder[MinOf(hits)]

---------------------------------------------------------------------------
(* The soft-deleted ids *)

NoDeletedFile == [exists |-> FALSE, ids |-> {}]

save_deleted_ids(s) ==
    IF Halted(s) THEN s
    ELSE [s EXCEPT !.deleted_ids_file = [exists |-> TRUE, ids |-> s.deleted_ids],
                   !.fuel = @ - 1]

load_deleted_ids(s) ==
    IF Halted(s) \/ ~s.deleted_ids_file.exists THEN s
    ELSE [s EXCEPT !.deleted_ids = s.deleted_ids_file.ids]

---------------------------------------------------------------------------
(* WALManager *)

Entry(op_type, key, vector, metadata, ts) ==
    [op_type |-> op_type, key |-> key, vector |-> vector, metadata |-> metadata,
     timestamp |-> ts]

\* the size of an entry's JSON line, in units: a metadata pair weighs one unit
EntrySize(e) == 1 + Cardinality(e.metadata)

RECURSIVE SizeOf(_)
SizeOf(entries) ==
    IF entries = << >> THEN 0
    ELSE EntrySize(Head(entries)) + SizeOf(Tail(entries))

\* the last segment while it is below the size threshold, else a new name
get_current_log_file(s, t) ==
    IF DOMAIN s.wal_files = {} THEN t
    ELSE LET last_file == MaxOf(DOMAIN s.wal_files)
         IN IF SizeOf(s.wal_files[last_file]) < max_log_size THEN last_file ELSE t

clean_expired_logs(s, t) ==
    LET expired == {f \in DOMAIN s.wal_files : t - f > max_log_age}
    IN IF Halted(s) \/ expired = {} THEN s
       ELSE [s EXCEPT !.wal_files = [f \in (DOMAIN @) \ expired |-> @[f]],
                      !.fuel = @ - 1]

\* open(temp_file, "a").write(line): the line is appended to the .tmp file
write_temp_file(s, e) ==
    IF Halted(s) THEN s
    ELSE LET cur == s.current_log_file
             old == IF cur \in DOMAIN s.wal_tmp THEN s.wal_tmp[cur] ELSE << >>
         IN [s EXCEPT !.wal_tmp = Upd(@, cur, Append(old, e)), !.fuel = @ - 1]

\* what a WAL entry does to a live set: a PUT binds the key to the entry's
\* vector, in single precision, and its metadata; a DELETE removes the key
ApplyEntry(live, e) ==
    IF e.op_type = "PUT"
    THEN Upd(live, e.key, [vector |-> F32Vec(e.vector), metadata |-> e.metadata])
    ELSE Rem(live, e.key)

RECURSIVE ApplyEntries(_, _)
ApplyEntries(live, entries) ==
    IF entries = << >> THEN live
    ELSE ApplyEntries(ApplyEntry(live, Head(entries)), Tail(entries))

\* os.rename(temp_file, self.current_log_file): the .tmp file becomes the segment
\* (the entries of the .tmp file reach a segment here)
rename_temp_file(s) ==
    IF Halted(s) THEN s
    ELSE LET cur == s.current_log_file
         IN [s EXCEPT !.wal_files = Upd(@, cur, s.wal_tmp[cur]),
                      !.wal_tmp = Rem(@, cur),
                      !.wal_applied = ApplyEntries(@, s.wal_tmp[cur]),
                      !.fuel = @ - 1]

roll_log_file(s, t) ==
    IF Halted(s) THEN s
    ELSE IF SizeOf(s.wal_files[s.current_log_file]) >= max_log_size
         THEN [s EXCEPT !.current_log_file = get_current_log_file(s, t)]
    ELSE s

\* if log_ts % 100 == 0: self._clean_expired_logs()
clean_periodically(s, log_ts, t) ==
    IF log_ts % CleanPeriod = 0 THEN clean_expired_logs(s, t) ELSE s

write_log(s, op_type, key, vector, metadata, t) ==
    clean_periodically(
        roll_log_file(
            rename_temp_file(
                write_temp_file(s, Entry(op_type, key, vector, metadata, t))), t),
        t, t)

---------------------------------------------------------------------------
(* Snapshots *)

NoCheckpoint ==
    [exists |-> FALSE, ts |-> 0,
     index |-> NoIndexFile,
     leveldb |-> [exists |-> FALSE, data |-> EmptyFn],
     deleted_ids |-> NoDeletedFile,
     wal_pos |-> [exists |-> FALSE, ts |-> 0]]

\* os.makedirs(checkpoint_path, exist_ok=True); only the newest directory is kept
\* in the model, because load_from_checkpoint reads no other
make_checkpoint_dir(s, t) ==
    IF Halted(s) THEN s
    ELSE IF s.checkpoint.exists /\ s.checkpoint.ts = t THEN [s EXCEPT !.fuel = @ - 1]
    ELSE [s EXCEPT !.checkpoint = [NoCheckpoint EXCEPT !.exists = TRUE, !.ts = t],
                   !.fuel = @ - 1]

copy_index(s) ==
    IF Halted(s) THEN s
    ELSE [s EXCEPT !.checkpoint.index =
                       [exists |-> TRUE, items |-> s.hnsw_index.items,
                        max_elements |-> s.hnsw_index.max_elements],
                   !.fuel = @ - 1]

copy_leveldb(s) ==
    IF Halted(s) THEN s
    ELSE [s EXCEPT !.checkpoint.leveldb = [exists |-> TRUE, data |-> s.leveldb],
                   !.fuel = @ - 1]

copy_deleted_ids(s) ==
    IF Halted(s) THEN s
    ELSE [s EXCEPT !.checkpoint.deleted_ids = [exists |-> TRUE, ids |-> s.deleted_ids],
                   !.fuel = @ - 1]

write_wal_pos(s, t) ==
    IF Halted(s) THEN s
    ELSE [s EXCEPT !.checkpoint.wal_pos = [exists |-> TRUE, ts |-> t],
                   !.fuel = @ - 1]

save_checkpoint(s, t) ==
    write_wal_pos(copy_deleted_ids(copy_leveldb(copy_index(make_checkpoint_dir(s, t)))), t)

---------------------------------------------------------------------------
(* Rebuild *)

\* the ids below next_hnsw_id that are not soft-deleted and belong to a key
valid_ids(s) ==
    {id \in 0..(s.next_hnsw_id - 1) :
        id \notin s.deleted_ids /\ get_key_by_hnsw_id(s, id) # ""}

clear_deleted_ids(s) == IF Halted(s) THEN s ELSE [s EXCEPT !.deleted_ids = {}]

\* hnswlib's add_items of a batch: an empty batch has the shape (0,), which is
\* read as one vector of dimension 0 and raises RuntimeError
rebuild_from(s, ids) ==
    IF ids = {}
    THEN Raise([s EXCEPT !.hnsw_index = NewIndex(RebuildHeadroom)])
    ELSE save_deleted_ids(clear_deleted_ids(save_index(
             [s EXCEPT !.hnsw_index =
                 [items |-> [id \in ids |-> s.leveldb[get_key_by_hnsw_id(s, id)].vector],
                  max_elements |-> Cardinality(ids) + RebuildHeadroom]])))

rebuild_hnsw_index(s) == IF Halted(s) THEN s ELSE rebuild_from(s, valid_ids(s))

---------------------------------------------------------------------------
(* The RPC handlers of VectorNodeHandler *)

VectorData(key, vector, metadata) ==
    [key |-> key, vector |-> vector, metadata |-> metadata]

\* step 1 and 2 of put: a full index is rebuilt before the write
put_health_check(s) ==
    IF Halted(s) THEN s
    ELSE IF get_current_count(s.hnsw_index) >= s.hnsw_index.max_elements
         THEN rebuild_hnsw_index(s)
    ELSE s

\* step 3 of put: the old id of an overwritten key is soft-deleted
put_overwrite(s, key) ==
    LET old_hnsw_id == get_hnsw_id_by_key(s, key)
    IN IF Halted(s) \/ old_hnsw_id = -1 THEN s
       ELSE leveldb_delete([s EXCEPT !.deleted_ids = @ \cup {old_hnsw_id}], key)

\* step 4 and 5 of put: the vector enters the graph under next_hnsw_id; after a
\* RuntimeError the index is rebuilt and the insertion is tried once more
add_with_next_id(s, vec) == hnsw_add_item(s, s.next_hnsw_id, vec)

put_add_items(s, vec) ==
    IF Halted(s) \/ ~add_with_next_id(s, vec).exc THEN add_with_next_id(s, vec)
    ELSE add_with_next_id(rebuild_hnsw_index(s), vec)

\* put_store without step 6: the counter does not advance
put_store_keeps_counter(s, key, vec, metadata) ==
    IF Halted(s) THEN s
    ELSE leveldb_put(s, key,
                     [hnsw_id |-> s.next_hnsw_id, vector |-> vec,
                      metadata |-> metadata])

\* step 6 and 7 of put: the counter advances and the KV entry is written
put_store(s, key, vec, metadata) ==
    IF Halted(s) THEN s
    ELSE leveldb_put([s EXCEPT !.next_hnsw_id = @ + 1], key,
                     [hnsw_id |-> s.next_hnsw_id, vector |-> vec,
                      metadata |-> metadata])

\* step 8 of put: index.bin, deleted_ids.json and the WAL entry
put_persist(s, data, metadata, t) ==
    write_log(save_deleted_ids(save_index(s)), "PUT", data.key, data.vector, metadata, t)

\* step 9 of put: the periodic rebuild and the periodic snapshot
periodic_rebuild(s) ==
    IF ~Halted(s) /\ s.next_hnsw_id % RebuildInterval = 0
    THEN rebuild_hnsw_index(s) ELSE s

periodic_checkpoint(s, t) ==
    IF ~Halted(s) /\ s.next_hnsw_id % CheckpointInterval = 0
    THEN save_checkpoint(s, t) ELSE s

put_maintenance(s, t) == periodic_checkpoint(periodic_rebuild(s), t)

\* step 1 to 7 of put
put_insert(s, key, vec, metadata) ==
    put_store(put_add_items(put_overwrite(put_health_check(s), key), vec),
              key, vec, metadata)

put_finish_relogging(s, data, metadata, replay_mode, t) ==
    put_maintenance(put_persist(s, data, metadata, t), t)

\* step 8 and 9 are skipped in replay mode
put_finish(s, data, metadata, replay_mode, t) ==
    IF replay_mode THEN s
    ELSE put_maintenance(put_persist(s, data, metadata, t), t)

put_apply(s, data, vec, metadata, replay_mode, t) ==
    put_finish(put_insert(s, data.key, vec, metadata), data, metadata, replay_mode, t)

put_without_dim_check(s, data, replay_mode, t) ==
    Ret(put_apply(s, data, F32Vec(data.vector),
                  IF data.metadata = NoMeta THEN EmptyMap ELSE data.metadata[1],
                  replay_mode, t),
        "ok")

put(s, data, replay_mode, t) ==
    IF Len(data.vector) # VECTOR_DIM THEN Ret(s, "fail")
    ELSE Ret(put_apply(s, data, F32Vec(data.vector),
                       IF data.metadata = NoMeta THEN EmptyMap ELSE data.metadata[1],
                       replay_mode, t),
             "ok")

delete_mark(s, key) ==
    leveldb_delete([s EXCEPT !.deleted_ids = @ \cup {get_hnsw_id_by_key(s, key)}], key)

delete_persist(s, key, replay_mode, t) ==
    IF replay_mode THEN s
    ELSE write_log(save_deleted_ids(s), "DELETE", key, NoVector, EmptyMap, t)

delete(s, key, replay_mode, t) ==
    IF get_hnsw_id_by_key(s, key) = -1 THEN Ret(s, "fail")
    ELSE Ret(delete_persist(delete_mark(s, key), key, replay_mode, t), "ok")

NotFound == [success |-> FALSE, vector |-> << >>, metadata |-> EmptyMap]

get(s, key) ==
    IF key \notin DOMAIN s.leveldb THEN NotFound
    ELSE IF s.leveldb[key].hnsw_id \in s.deleted_ids THEN NotFound
    ELSE [success |-> TRUE, vector |-> s.leveldb[key].vector,
          metadata |-> s.leveldb[key].metadata]

---------------------------------------------------------------------------
(* search *)

RECURSIVE L2(_, _)
L2(a, b) ==
    IF a = << >> \/ b = << >> THEN 0
    ELSE (Head(a) - Head(b)) * (Head(a) - Head(b)) + L2(Tail(a), Tail(b))

\* knn_query: the k labels nearest to the query, nearest first (equal distances
\* in label order); RuntimeError when the graph holds fewer than k labels
RECURSIVE Nearest(_, _, _, _)
Nearest(items, ids, query, k) ==
    IF k = 0 \/ ids = {} THEN << >>
    ELSE LET best == CHOOSE i \in ids : \A j \in ids :
                         \/ L2(items[i], query) < L2(items[j], query)
                         \/ L2(items[i], query) = L2(items[j], query) /\ i <= j
         IN <<best>> \o Nearest(items, ids \ {best}, query, k - 1)

\* the loop over the candidates: tombstoned ids, ids without a key and keys
\* without an entry are skipped; the loop stops at top_k results
RECURSIVE search_collect(_, _, _, _, _, _)
search_collect(s, indices, query, i, top_k, results) ==
    IF i > Len(indices) \/ Len(results) >= top_k THEN results
    ELSE IF indices[i] \in s.deleted_ids \/ get_key_by_hnsw_id(s, indices[i]) = ""
         THEN search_collect(s, indices, query, i + 1, top_k, results)
    ELSE search_collect(s, indices, query, i + 1, top_k,
             Append(results, [key |-> get_key_by_hnsw_id(s, indices[i]),
                              hnsw_id |-> indices[i],
                              score |-> L2(s.hnsw_index.items[indices[i]], query)]))

SearchFailed == [success |-> FALSE, results |-> << >>]

knn_search(s, query_vector, top_k, k) ==
    IF Len(query_vector) # VECTOR_DIM \/ get_current_count(s.hnsw_index) < k * 2
    THEN SearchFailed
    ELSE [success |-> TRUE,
          results |-> search_collect(s,
                          Nearest(s.hnsw_index.items, DOMAIN s.hnsw_index.items,
                                  F32Vec(query_vector), k * 2),
                          F32Vec(query_vector), 1, top_k, << >>)]

search_top_k(s, query_vector, top_k) ==
    IF get_current_count(s.hnsw_index) = 0
    THEN [success |-> TRUE, results |-> << >>]
    ELSE knn_search(s, query_vector, top_k,
                    MinOf({top_k, get_current_count(s.hnsw_index)}))

search(s, query_vector, req_top_k) ==
    search_top_k(s, query_vector, IF req_top_k > 0 THEN req_top_k ELSE DefaultTopK)

\* a SearchRequest: the query, top_k and the metadata filter, a set of
\* <<key, value>> entries, {} when the request has none
Filters == {{}, {<<"t", "x">>}, {<<"t", "y">>}}
SearchRequest(query_vector, top_k, filter) ==
    [query_vector |-> query_vector, top_k |-> top_k, filter |-> filter]

\* VectorNodeHandler.search(req) reads req.query_vector and req.top_k, and
\* req.threshold into a variable it does not use; it does not read req.filter
search_request(s, req) == search(s, req.query_vector, req.top_k)

---------------------------------------------------------------------------
(* Incremental replay of the WAL *)

RECURSIVE SortedSeq(_)
SortedSeq(S) == IF S = {} THEN << >> ELSE <<MinOf(S)>> \o SortedSeq(S \ {MinOf(S)})

\* a line of a segment that is no entry: "NOT_JSON" makes json.loads raise
\* JSONDecodeError; "NOT_AN_ENTRY" is a JSON value without the fields of an
\* entry, or bytes that are not UTF-8
MalformedKinds == {"NOT_JSON", "NOT_AN_ENTRY"}
Malformed(kind) == Entry(kind, "", NoVector, EmptyMap, 0)

\* the loop over the lines gives up the file at the first line that raises
\* anything, and reads on after that line
RECURSIVE read_lines_to_end(_)
read_lines_to_end(lines) ==
    IF lines = << >> THEN << >>
    ELSE IF Head(lines).op_type \in MalformedKinds THEN read_lines_to_end(Tail(lines))
    ELSE <<Head(lines)>> \o read_lines_to_end(Tail(lines))

\* the loop over the lines of one segment: a JSONDecodeError skips the line;
\* any other exception (KeyError, TypeError, UnicodeDecodeError) is caught
\* outside the loop, which gives up the rest of the file
RECURSIVE read_lines(_)
read_lines(lines) ==
    IF lines = << >> THEN << >>
    ELSE IF Head(lines).op_type = "NOT_JSON" THEN read_lines(Tail(lines))
    ELSE IF Head(lines).op_type = "NOT_AN_ENTRY" THEN << >>
    ELSE <<Head(lines)>> \o read_lines(Tail(lines))

RECURSIVE ReadSegments(_, _)
ReadSegments(files, names) ==
    IF names = << >> THEN << >>
    ELSE read_lines(files[Head(names)]) \o ReadSegments(files, Tail(names))

\* the keys of a dict filled in the order of the entries: a key keeps the place
\* of its first entry
RECURSIVE DictKeys(_, _)
DictKeys(entries, keys) ==
    IF entries = << >> THEN keys
    ELSE DictKeys(Tail(entries),
                  IF \E i \in 1..Len(keys) : keys[i] = Head(entries).key
                  THEN keys ELSE Append(keys, Head(entries).key))

\* the dict keeps the first entry that it reads of each key
unique_ops_first(entries) ==
    LET keys == DictKeys(entries, << >>)
    IN [n \in 1..Len(keys) |->
           entries[MinOf({i \in 1..Len(entries) : entries[i].key = keys[n]})]]

\* unique_ops[key] = log_entry: the last entry of each key, in the dict's order
unique_ops(entries) ==
    LET keys == DictKeys(entries, << >>)
    IN [n \in 1..Len(keys) |->
           entries[MaxOf({i \in 1..Len(entries) : entries[i].key = keys[n]})]]

replay_one(s, log_entry, t) ==
    IF log_entry.op_type = "PUT"
    THEN put(s, VectorData(log_entry.key, log_entry.vector, <<log_entry.metadata>>),
             TRUE, t)
    ELSE delete(s, log_entry.key, TRUE, t)

\* the replay loop: an exception of one operation is logged and the loop goes on
RECURSIVE replay_ops(_, _, _)
replay_ops(s, ops, t) ==
    IF ops = << >> \/ Halted(s) THEN s
    ELSE replay_ops([replay_one(s, Head(ops), t) EXCEPT !.exc = FALSE], Tail(ops), t)

save_checkpoint_ts(s, ts) ==
    IF Halted(s) THEN s ELSE [s EXCEPT !.checkpoint_ts = ts, !.fuel = @ - 1]

\* the entries of the segments named after the snapshot, themselves after it
incremental_entries(s, snapshot_ts) ==
    SelectSeq(ReadSegments(s.wal_files,
                           SortedSeq({f \in DOMAIN s.wal_files : f > snapshot_ts})),
              LAMBDA e : e.timestamp > snapshot_ts)

max_timestamp(entries, snapshot_ts) ==
    MaxOf({snapshot_ts} \cup {entries[i].timestamp : i \in 1..Len(entries)})

replay_entries(s, entries, snapshot_ts, t) ==
    save_checkpoint_ts(replay_ops(s, unique_ops(entries), t),
                       max_timestamp(entries, snapshot_ts))

replay_incremental(s, snapshot_ts, t) ==
    replay_entries(s, incremental_entries(s, snapshot_ts), snapshot_ts, t)

---------------------------------------------------------------------------
(* The constructor, snapshot recovery and the exit hook *)

restore_index(s) ==
    IF s.checkpoint.index.exists
    THEN [s EXCEPT !.hnsw_index = [items |-> s.checkpoint.index.items,
                                   max_elements |-> InitMaxElements],
                   !.next_hnsw_id = Cardinality(DOMAIN s.checkpoint.index.items)]
    ELSE s

restore_leveldb(s) ==
    IF s.checkpoint.leveldb.exists
    THEN [s EXCEPT !.leveldb = s.checkpoint.leveldb.data, !.fuel = @ - 1]
    ELSE s

restore_deleted_ids(s) ==
    IF s.checkpoint.deleted_ids.exists
    THEN [s EXCEPT !.deleted_ids = s.checkpoint.deleted_ids.ids]
    ELSE s

\* open(wal_pos.txt) raises when the snapshot directory has no WAL position
replay_after_checkpoint(s, t) ==
    IF ~s.checkpoint.wal_pos.exists THEN Raise(s)
    ELSE replay_incremental(s, s.checkpoint.wal_pos.ts, t)

load_from_checkpoint(s, t) ==
    IF Halted(s) \/ ~s.checkpoint.exists THEN s
    ELSE replay_after_checkpoint(
             restore_deleted_ids(restore_leveldb(restore_index(s))), t)

init_hnsw_index(s) ==
    IF s.index_bin.exists
    THEN [s EXCEPT !.hnsw_index = [items |-> s.index_bin.items,
                                   max_elements |-> s.index_bin.max_elements],
                   !.next_hnsw_id = Cardinality(DOMAIN s.index_bin.items)]
    ELSE [s EXCEPT !.hnsw_index = NewIndex(InitMaxElements)]

\* VectorNodeHandler.__init__ on the files the previous process left
init(s, t) ==
    Ret(load_from_checkpoint(
            load_deleted_ids(
                init_hnsw_index(
                    [s EXCEPT !.current_log_file = get_current_log_file(s, t),
                              !.next_hnsw_id = 0, !.deleted_ids = {},
                              !.exc = FALSE, !.fuel = NoCrash])), t),
        "ok")

on_exit(s, t) ==
    save_checkpoint(save_deleted_ids(save_index(s)), t)

EmptyDisk ==
    [hnsw_index |-> NewIndex(0), next_hnsw_id |-> 0, deleted_ids |-> {},
     current_log_file |-> 0, checkpoint_ts |-> 0, leveldb |-> EmptyFn,
     index_bin |-> NoIndexFile, deleted_ids_file |-> NoDeletedFile,
     wal_files |-> EmptyFn, wal_tmp |-> EmptyFn, checkpoint |-> NoCheckpoint,
     wal_applied |-> EmptyFn, exc |-> FALSE, fuel |-> NoCrash, ret |-> "none"]

---------------------------------------------------------------------------
(* Actions *)

InitFrom(s) ==
    /\ hnsw_index = s.hnsw_index
    /\ next_hnsw_id = s.next_hnsw_id
    /\ deleted_ids = s.deleted_ids
    /\ current_log_file = s.current_log_file
    /\ checkpoint_ts = s.checkpoint_ts
    /\ leveldb = s.leveldb
    /\ index_bin = s.index_bin
    /\ deleted_ids_file = s.deleted_ids_file
    /\ wal_files = s.wal_files
    /\ wal_tmp = s.wal_tmp
    /\ checkpoint = s.checkpoint
    /\ wal_applied = s.wal_applied

\* the worker threads of the thread pool server wait for requests
Threads == {1, 2}
NoRequest == VectorData("", NoVector, NoMeta)

ThreadsInit ==
    /\ pc = [t \in Threads |-> "idle"]
    /\ index_lock = 0
    /\ request = [t \in Threads |-> NoRequest]
    /\ new_hnsw_id = [t \in Threads |-> -1]
    /\ response = [t \in Threads |-> "none"]

\* the data nodes of the cluster and the workers of the coordinator
ClusterNodes == {"node_1", "node_2"}
Workers == {1, 2}
NoClient == [node |-> "", transport |-> 0]

NotRegistering == [pc |-> "idle", node_id |-> "", nodes |-> << >>, shard_id |-> 0]

NoSync == [calls |-> << >>, lock |-> [n \in ClusterNodes |-> 0],
           applied |-> [n \in ClusterNodes |-> 0]]

\* no node is registered, every data node runs on an empty data directory
ClusterInit ==
    /\ alive = ClusterNodes
    /\ znodes = EmptyFn
    /\ node_cache = << >>
    /\ shards = EmptyFn
    /\ registered = << >>
    /\ dn = [n \in ClusterNodes |-> init(EmptyDisk, 0)]
    /\ acked = EmptyFn
    /\ writes = 0
    /\ pool = EmptyFn
    /\ transports = << >>
    /\ held = [w \in Workers |-> NoClient]

\* the watch is installed, no registration runs, no write is forwarded
SideInit ==
    /\ watch = "set"
    /\ registering = [w \in Workers |-> NotRegistering]
    /\ sync = NoSync

AuxInit == ThreadsInit /\ ClusterInit /\ SideInit

NodeInit ==
    /\ InitFrom(init(EmptyDisk, 0))
    /\ now = 0
    /\ up = TRUE

Init ==
    /\ NodeInit
    /\ AuxInit

\* the clock advances between two requests
Tick ==
    /\ now < MaxTime
    /\ now' = now + 1
    /\ UNCHANGED <<hnsw_index, next_hnsw_id, deleted_ids, current_log_file,
                   checkpoint_ts, leveldb, index_bin, deleted_ids_file, wal_files,
                   wal_tmp, checkpoint, wal_applied, up, auxVars>>

\* a request arrives after the snapshot the node wrote last: the clock of the
\* model ticks between the two, as the millisecond clock of the node does
ClockAdvanced == ~(checkpoint.exists /\ checkpoint.ts >= now)

\* the state after a client's put(VectorData(k, v, m)), and its response
PutResult(k, v, m) == put(State(NoCrash), VectorData(k, v, m), FALSE, now)

Put(k, v, m) ==
    /\ up
    /\ ClockAdvanced
    /\ next_hnsw_id < MaxId
    /\ Install(PutResult(k, v, m))
    /\ UNCHANGED <<now, up, auxVars>>

\* the state after a client's delete(k), and its response
DeleteResult(k) == delete(State(NoCrash), k, FALSE, now)

Delete(k) ==
    /\ up
    /\ ClockAdvanced
    /\ Install(DeleteResult(k))
    /\ UNCHANGED <<now, up, auxVars>>

\* get and search answer from the state and change nothing
Get(k) ==
    /\ up
    /\ get(State(NoCrash), k) \in {NotFound} \cup [success : {TRUE},
           vector : {leveldb[x].vector : x \in DOMAIN leveldb},
           metadata : {leveldb[x].metadata : x \in DOMAIN leveldb}]
    /\ UNCHANGED vars

Search(req) ==
    /\ up
    /\ Len(search_request(State(NoCrash), req).results) <= DefaultTopK
    /\ UNCHANGED vars

InstallStarted(r) ==
    /\ Install(r)
    /\ up' = ~r.exc
    /\ UNCHANGED auxVars

\* the process starts on the files of `disk`, one clock tick later at least; a
\* constructor that raises leaves the node down
Start(disk) ==
    /\ now < MaxTime
    /\ now' = now + 1
    /\ InstallStarted(init(disk, now + 1))

\* kill -9 of a quiescent node, then the restart
KillRestart ==
    /\ up
    /\ Start(State(NoCrash))

\* SIGINT or SIGTERM: the exit hook runs, then the restart
ExitRestart ==
    /\ up
    /\ Start(on_exit(State(NoCrash), now))

TmpBounded(s) == \A f \in DOMAIN s.wal_tmp : Len(s.wal_tmp[f]) <= MaxTmpLen

\* the process died inside the operation that left `r`, then the restart
StartAfterCrash(r) ==
    /\ r.fuel = 0
    /\ TmpBounded(r)
    /\ Start(r)

\* kill -9 after the n-th disk write of a PUT, then the restart
PutCrash(k, v, m, n) ==
    /\ up
    /\ ClockAdvanced
    /\ next_hnsw_id < MaxId
    /\ StartAfterCrash(put(State(n), VectorData(k, v, m), FALSE, now))

\* kill -9 after the n-th disk write of a DELETE, then the restart
DeleteCrash(k, n) ==
    /\ up
    /\ ClockAdvanced
    /\ StartAfterCrash(delete(State(n), k, FALSE, now))

\* a node whose constructor raised is started again
StartAgain ==
    /\ ~up
    /\ Start(State(NoCrash))

Next ==
    \/ Tick
    \/ \E k \in Keys, p \in Payloads : Put(k, p[1], p[2])
    \/ \E k \in Keys : Delete(k)
    \/ \E k \in Keys : Get(k)
    \/ \E q \in QueryVectors, top_k \in TopKs, f \in Filters :
           Search(SearchRequest(q, top_k, f))
    \/ KillRestart
    \/ ExitRestart

Spec == Init /\ [][Next]_vars

NextCrash ==
    \/ Next
    \/ \E k \in Keys, p \in Payloads, n \in 1..MaxCrashPoint :
           PutCrash(k, p[1], p[2], n)
    \/ \E k \in Keys, n \in 1..MaxCrashPoint : DeleteCrash(k, n)
    \/ StartAgain

SpecCrash == Init /\ [][NextCrash]_vars

---------------------------------------------------------------------------
(* Faults: a disk that refuses the WAL append, a graph that refuses a vector *)

\* write_log whose open(temp_file, "a") raises OSError: nothing is written
write_log_raises(s) == Raise(s)

\* put, step 8: `except Exception as e: logger.error(...)`, the handler goes on
persistence_failed(s) == IF s.fuel = 0 THEN s ELSE [s EXCEPT !.exc = FALSE]

\* step 8 and 9 of a put whose WAL append raises
put_finish_wal_error(s, t) ==
    IF Halted(s) THEN s
    ELSE put_maintenance(
             persistence_failed(write_log_raises(save_deleted_ids(save_index(s)))), t)

\* put(data) of a client on a disk that refuses the WAL append
put_wal_error(s, data, t) ==
    IF Len(data.vector) # VECTOR_DIM THEN Ret(s, "fail")
    ELSE Ret(put_finish_wal_error(
                 put_insert(s, data.key, F32Vec(data.vector),
                            IF data.metadata = NoMeta THEN EmptyMap
                            ELSE data.metadata[1]), t),
             "ok")

\* delete(key) of a client on such a disk: nothing catches the exception
delete_wal_error(s, key) ==
    IF get_hnsw_id_by_key(s, key) = -1 THEN Ret(s, "fail")
    ELSE Ret(write_log_raises(save_deleted_ids(delete_mark(s, key))), "ok")

\* hnswlib's add_items raises RuntimeError
add_items_raises(s) == Raise(s)

\* step 5 of a put whose insertion raises at the first attempt and at the
\* retry: the handler rebuilds the index between the two
put_add_items_failing(s) ==
    IF Halted(s) THEN s ELSE add_items_raises(rebuild_hnsw_index(s))

\* put(data) of a client on such a graph: the second RuntimeError leaves the handler
put_add_fails(s, data) ==
    IF Len(data.vector) # VECTOR_DIM THEN Ret(s, "fail")
    ELSE Ret(put_add_items_failing(put_overwrite(put_health_check(s), data.key)), "ok")

PutAddFails(k, v, m) ==
    /\ up
    /\ ClockAdvanced
    /\ next_hnsw_id < MaxId
    /\ Install(put_add_fails(State(NoCrash), VectorData(k, v, m)))
    /\ UNCHANGED <<now, up, auxVars>>

PutWalError(k, v, m) ==
    /\ up
    /\ ClockAdvanced
    /\ next_hnsw_id < MaxId
    /\ Install(put_wal_error(State(NoCrash), VectorData(k, v, m), now))
    /\ UNCHANGED <<now, up, auxVars>>

DeleteWalError(k) ==
    /\ up
    /\ ClockAdvanced
    /\ Install(delete_wal_error(State(NoCrash), k))
    /\ UNCHANGED <<now, up, auxVars>>

\* the requests of a client to a node that stays up, on faulty devices
NextFaults ==
    \/ Tick
    \/ \E k \in Keys, p \in Payloads : Put(k, p[1], p[2])
    \/ \E k \in Keys : Delete(k)
    \/ \E k \in Keys, p \in Payloads : PutWalError(k, p[1], p[2])
    \/ \E k \in Keys : DeleteWalError(k)
    \/ \E k \in Keys, p \in Payloads : PutAddFails(k, p[1], p[2])

SpecFaults == Init /\ [][NextFaults]_vars

---------------------------------------------------------------------------
(* A disk that damages a line of the WAL *)

NoMalformedLine ==
    \A f \in DOMAIN wal_files : \A i \in 1..Len(wal_files[f]) :
        wal_files[f][i].op_type \notin MalformedKinds

\* line i of the segment f is damaged; one line in the life of the disk
CorruptLine(f, i, kind) ==
    /\ NoMalformedLine
    /\ wal_files' = [wal_files EXCEPT ![f] = [@ EXCEPT ![i] = Malformed(kind)]]
    /\ UNCHANGED <<hnsw_index, next_hnsw_id, deleted_ids, current_log_file,
                   checkpoint_ts, leveldb, index_bin, deleted_ids_file, wal_tmp,
                   checkpoint, wal_applied, now, up, auxVars>>

\* the requests of one client that writes one value, kills and restarts
NextCorrupt ==
    \/ Tick
    \/ \E k \in Keys : Put(k, <<1, 2>>, NoMeta)
    \/ \E k \in Keys : Delete(k)
    \/ ExitRestart
    \/ \E k \in Keys, n \in 1..MaxCrashPoint : PutCrash(k, <<1, 2>>, NoMeta, n)
    \/ StartAgain
    \/ \E f \in DOMAIN wal_files : \E i \in 1..Len(wal_files[f]) :
           \E kind \in MalformedKinds : CorruptLine(f, i, kind)

SpecCorrupt == Init /\ [][NextCorrupt]_vars

---------------------------------------------------------------------------
(* Two worker threads of the thread pool server inside put *)

\* the two clients write different values
ThreadPayloads(t) ==
    IF t = 1 THEN {<< <<2, 0>>, <<Meta1>> >>}
    ELSE {<< <<1, 2>>, NoMeta >>, << <<2>>, NoMeta >>}

\* a worker thread takes a put request off the socket; the dimension check
\* comes before the lock
ThreadCall(t, data) ==
    /\ up /\ ClockAdvanced /\ next_hnsw_id < MaxId
    /\ pc[t] = "idle"
    /\ pc' = [pc EXCEPT ![t] = IF Len(data.vector) # VECTOR_DIM
                                THEN "done" ELSE "wait"]
    /\ response' = [response EXCEPT ![t] = IF Len(data.vector) # VECTOR_DIM
                                            THEN "fail" ELSE @]
    /\ request' = [request EXCEPT ![t] = data]
    /\ UNCHANGED <<hnsw_index, next_hnsw_id, deleted_ids, current_log_file,
                   checkpoint_ts, leveldb, index_bin, deleted_ids_file, wal_files,
                   wal_tmp, checkpoint, wal_applied, now, up, index_lock,
                   new_hnsw_id, clusterVars>>

\* `with self.index_lock`: the thread waits until the lock is free
Acquire(t) ==
    /\ pc[t] = "wait"
    /\ index_lock = 0
    /\ index_lock' = t
    /\ pc' = [pc EXCEPT ![t] = "health"]
    /\ UNCHANGED <<hnsw_index, next_hnsw_id, deleted_ids, current_log_file,
                   checkpoint_ts, leveldb, index_bin, deleted_ids_file, wal_files,
                   wal_tmp, checkpoint, wal_applied, now, up, request,
                   new_hnsw_id, response, clusterVars>>

\* step 6 and 7: the counter advances, the KV entry carries the local new_hnsw_id
store_new_id(s, data, id) ==
    leveldb_put([s EXCEPT !.next_hnsw_id = @ + 1], data.key,
                [hnsw_id |-> id, vector |-> F32Vec(data.vector),
                 metadata |-> IF data.metadata = NoMeta THEN EmptyMap
                              ELSE data.metadata[1]])

\* the steps of put inside the lock, in their order
PutSteps == <<"health", "overwrite", "add", "store", "persist", "maintain", "release">>

put_step(s, label, data, id, t) ==
    CASE label = "health" -> put_health_check(s)
      [] label = "overwrite" -> put_overwrite(s, data.key)
      [] label = "add" -> put_add_items(s, F32Vec(data.vector))
      [] label = "store" -> store_new_id(s, data, id)
      [] label = "persist" ->
             put_persist(s, data, IF data.metadata = NoMeta THEN EmptyMap
                                  ELSE data.metadata[1], t)
      [] label = "maintain" -> put_maintenance(s, t)

\* the thread moves on to the next step; an exception leaves the `with` block
\* and the handler; new_hnsw_id is the counter at the insertion that succeeded
StepTo(t, r, i) ==
    /\ Install(r)
    /\ pc' = [pc EXCEPT ![t] = IF r.exc THEN "done" ELSE PutSteps[i + 1]]
    /\ response' = [response EXCEPT ![t] = IF r.exc THEN "exc" ELSE @]
    /\ index_lock' = IF r.exc THEN 0 ELSE index_lock
    /\ new_hnsw_id' = [new_hnsw_id EXCEPT ![t] =
                           IF PutSteps[i] = "add" THEN r.next_hnsw_id ELSE @]
    /\ UNCHANGED <<now, up, request, clusterVars>>

\* one step of put on the shared state of the handler
ThreadStep(t, i) ==
    /\ pc[t] = PutSteps[i]
    /\ StepTo(t, put_step(State(NoCrash), PutSteps[i], request[t], new_hnsw_id[t], now), i)

\* the end of the `with` block and the response
ThreadRelease(t) ==
    /\ pc[t] = "release"
    /\ pc' = [pc EXCEPT ![t] = "done"]
    /\ index_lock' = 0
    /\ response' = [response EXCEPT ![t] = "ok"]
    /\ UNCHANGED <<hnsw_index, next_hnsw_id, deleted_ids, current_log_file,
                   checkpoint_ts, leveldb, index_bin, deleted_ids_file, wal_files,
                   wal_tmp, checkpoint, wal_applied, now, up, request, new_hnsw_id,
                   clusterVars>>

\* both clients have their responses; the threads wait for the next requests
ThreadsReturn ==
    /\ \A t \in Threads : pc[t] = "done"
    /\ pc' = [t \in Threads |-> "idle"]
    /\ index_lock' = 0
    /\ request' = [t \in Threads |-> NoRequest]
    /\ new_hnsw_id' = [t \in Threads |-> -1]
    /\ response' = [t \in Threads |-> "none"]
    /\ UNCHANGED <<nodeVars, clusterVars>>

AllIdle == \A t \in Threads : pc[t] = "idle"

\* get takes leveldb_lock, which put holds inside leveldb.delete and inside
\* leveldb.put only: a get is served between any two steps of a put; deletes
\* and restarts come between the rounds of the two clients
NextThreads ==
    \/ Tick
    \/ \E t \in Threads, k \in Keys : \E p \in ThreadPayloads(t) :
           ThreadCall(t, VectorData(k, p[1], p[2]))
    \/ \E t \in Threads : Acquire(t)
    \/ \E t \in Threads, i \in 1..(Len(PutSteps) - 1) : ThreadStep(t, i)
    \/ \E t \in Threads : ThreadRelease(t)
    \/ ThreadsReturn
    \/ \E k \in Keys : Get(k)
    \/ AllIdle /\ (\E k \in Keys : Delete(k))
    \/ AllIdle /\ KillRestart
    \/ AllIdle /\ ExitRestart

SpecThreads == Init /\ [][NextThreads]_vars

---------------------------------------------------------------------------
(* ZooKeeper: membership and shard placement *)

Range(seq) == {seq[i] : i \in 1..Len(seq)}

\* get_children returns the children in no particular order
Orders(S) == {seq \in [1..Cardinality(S) -> S] : Range(seq) = S}

\* shared_utils.get_shard_id: md5(key) mod SHARD_COUNT, for the keys of the model
get_shard_id(key) == IF key = "a" THEN 1 ELSE 3

\* the replicas are counted from the master itself
assign_shards_from_master(nodes, shard_count, replica_count) ==
    IF nodes = << >> THEN EmptyFn
    ELSE [shard_id \in 0..(shard_count - 1) |->
             [master |-> nodes[(shard_id % Len(nodes)) + 1],
              slaves |-> [i \in 1..replica_count |->
                             nodes[((shard_id + i - 1) % Len(nodes)) + 1]]]]

assign_shards_to_nodes(nodes, shard_count, replica_count) ==
    IF nodes = << >> THEN EmptyFn
    ELSE [shard_id \in 0..(shard_count - 1) |->
             [master |-> nodes[(shard_id % Len(nodes)) + 1],
              slaves |-> [i \in 1..replica_count |->
                             nodes[((shard_id + i) % Len(nodes)) + 1]]]]

\* ZKManager.register_node: the ephemeral record is created in the session of
\* the calling process, the coordinator; the cache is refreshed after a creation
zk_register_node(node_id) ==
    IF node_id \in DOMAIN znodes THEN znodes ELSE Upd(znodes, node_id, "coordinator")

\* set_shard_mapping for every shard of the mapping
set_shard_mappings(mapping) ==
    [s \in (DOMAIN shards) \cup (DOMAIN mapping) |->
        IF s \in DOMAIN mapping THEN mapping[s] ELSE shards[s]]

\* CoordinatorHandler.register_node, with the member list that it read
RegisterWith(node_id, nodes) ==
    /\ znodes' = zk_register_node(node_id)
    /\ node_cache' = nodes
    /\ registered' = nodes
    /\ shards' = set_shard_mappings(assign_shards_to_nodes(nodes, SHARD_COUNT, REPLICA_COUNT))
    /\ UNCHANGED <<alive, dataVars, poolVars, nodeVars, threadVars, sideVars>>

\* the operator registers a data node that runs
RegisterNode(node_id) ==
    /\ node_id \in alive
    /\ \E nodes \in IF node_id \in DOMAIN znodes THEN {node_cache}
                       ELSE Orders((DOMAIN znodes) \cup {node_id}) :
           RegisterWith(node_id, nodes)

\* ZooKeeper deletes the ephemeral records of a session that ended
session_lost(session) == [n \in {m \in DOMAIN znodes : znodes[m] # session} |-> znodes[n]]

\* a data node dies: its server socket closes and its ZooKeeper session ends
NodeFail(n) ==
    /\ n \in alive
    /\ alive' = alive \ {n}
    /\ znodes' = session_lost(n)
    /\ node_cache' = SelectSeq(node_cache, LAMBDA m : m \in DOMAIN session_lost(n))
    /\ UNCHANGED <<shards, registered, dataVars, poolVars, nodeVars, threadVars, sideVars>>

\* one round of _health_check_loop: every cached node whose port does not answer
\* is removed from ZooKeeper and from the cache
HealthCheck ==
    /\ Range(node_cache) \ alive # {}
    /\ znodes' = [n \in (DOMAIN znodes) \cap alive |-> znodes[n]]
    /\ node_cache' \in Orders((DOMAIN znodes) \cap alive)
    /\ UNCHANGED <<alive, shards, registered, dataVars, poolVars, nodeVars, threadVars, sideVars>>

NoMapping == [master |-> "", slaves |-> << >>]

\* the first slave of the mapping that is in the cache, else the master
first_online(master, slaves) == IF slaves = << >> THEN master ELSE slaves[1]

\* the recorded master is returned whether it is online or not
get_shard_nodes_recorded(shard_id) ==
    IF shard_id \notin DOMAIN shards THEN NoMapping
    ELSE [master |-> shards[shard_id].master,
          slaves |-> SelectSeq(shards[shard_id].slaves,
                               LAMBDA m : m \in Range(node_cache))]

\* ZKManager.get_shard_nodes: an offline master is replaced by the first online
\* slave, offline slaves are dropped
get_shard_nodes(shard_id) ==
    IF shard_id \notin DOMAIN shards THEN NoMapping
    ELSE [master |-> IF shards[shard_id].master \in Range(node_cache)
                     THEN shards[shard_id].master
                     ELSE first_online(shards[shard_id].master,
                              SelectSeq(shards[shard_id].slaves,
                                        LAMBDA m : m \in Range(node_cache))),
          slaves |-> SelectSeq(shards[shard_id].slaves,
                               LAMBDA m : m \in Range(node_cache))]

---------------------------------------------------------------------------
(* RPCClientPool *)

\* the pool and the transports as the workers see them
CurPool == [pool |-> pool, transports |-> transports]

NoBorrow(c) == [client |-> NoClient, pool |-> c.pool, transports |-> c.transports,
                exc |-> FALSE]

\* a new transport is opened; open() raises when nobody listens
open_client(c, node_id) ==
    IF node_id \notin alive THEN [NoBorrow(c) EXCEPT !.exc = TRUE]
    ELSE [client |-> [node |-> node_id, transport |-> Len(c.transports) + 1],
          pool |-> Upd(c.pool, node_id, << >>),
          transports |-> Append(c.transports, "open"), exc |-> FALSE]

\* the first idle client is handed out and stays in the pool
get_client_shared(c, node_id) ==
    IF node_id \notin Range(node_cache) THEN NoBorrow(c)
    ELSE IF node_id \notin DOMAIN c.pool \/ c.pool[node_id] = << >>
         THEN open_client(c, node_id)
    ELSE [client |-> [node |-> node_id, transport |-> Head(c.pool[node_id])],
          pool |-> c.pool, transports |-> c.transports, exc |-> FALSE]

\* RPCClientPool.get_client: the first idle client of the node, or a new one
get_client(c, node_id) ==
    IF node_id \notin Range(node_cache) THEN NoBorrow(c)
    ELSE IF node_id \notin DOMAIN c.pool \/ c.pool[node_id] = << >>
         THEN open_client(c, node_id)
    ELSE [client |-> [node |-> node_id, transport |-> Head(c.pool[node_id])],
          pool |-> Upd(c.pool, node_id, Tail(c.pool[node_id])),
          transports |-> c.transports, exc |-> FALSE]

idle_clients(pl, node_id) == IF node_id \in DOMAIN pl THEN pl[node_id] ELSE << >>

\* release_client accepts any client, whatever the size of the pool
release_client_unbounded(c, client) ==
    [c EXCEPT !.pool = Upd(c.pool, client.node,
                           Append(idle_clients(c.pool, client.node), client.transport))]

\* RPCClientPool.release_client: the client goes back unless the pool of the
\* node is full, then its transport is closed
release_client(c, client) ==
    IF Len(idle_clients(c.pool, client.node)) < RPC_POOL_SIZE
    THEN [c EXCEPT !.pool = Upd(c.pool, client.node,
                                Append(idle_clients(c.pool, client.node), client.transport))]
    ELSE [c EXCEPT !.transports = [@ EXCEPT ![client.transport] = "closed"]]

\* a worker of the coordinator borrows a client for a call
GetClient(w, node_id) ==
    /\ held[w] = NoClient
    /\ Len(transports) < MaxTransports
    /\ pool' = get_client(CurPool, node_id).pool
    /\ transports' = get_client(CurPool, node_id).transports
    /\ held' = [held EXCEPT ![w] = get_client(CurPool, node_id).client]
    /\ UNCHANGED <<zkVars, dataVars, nodeVars, threadVars, sideVars>>

InstallPool(c) ==
    /\ pool' = c.pool
    /\ transports' = c.transports

\* the call returned: the worker gives the client back
ReleaseClient(w) ==
    /\ held[w] # NoClient
    /\ InstallPool(release_client(CurPool, held[w]))
    /\ held' = [held EXCEPT ![w] = NoClient]
    /\ UNCHANGED <<zkVars, dataVars, nodeVars, threadVars, sideVars>>

\* the call raised (the data node died): the handler returns without a release
DropClient(w) ==
    /\ held[w] # NoClient
    /\ held[w].node \notin alive
    /\ held' = [held EXCEPT ![w] = NoClient]
    /\ UNCHANGED <<pool, transports, zkVars, dataVars, nodeVars, threadVars, sideVars>>

NextPool ==
    \/ \E n \in ClusterNodes : RegisterNode(n)
    \/ \E n \in ClusterNodes : NodeFail(n)
    \/ HealthCheck
    \/ \E w \in Workers, n \in ClusterNodes : GetClient(w, n)
    \/ \E w \in Workers : ReleaseClient(w)
    \/ \E w \in Workers : DropClient(w)

SpecPool == Init /\ [][NextPool]_vars

---------------------------------------------------------------------------
(* CoordinatorHandler: routing to the data nodes *)

\* the handler of the data node has answered and waits for the next request
Settle(res) == [res EXCEPT !.exc = FALSE, !.ret = "none"]

\* the pool after a call through the borrowed client r.client: a call that
\* raises (the data node is dead) skips the release
after_call(r, ok) == IF ok THEN release_client(r, r.client) ELSE r

\* the write that the data node n answered with res
StoreWrite(key, n, r, res, ack) ==
    /\ dn' = [dn EXCEPT ![n] = Settle(res)]
    /\ InstallPool(after_call(r, res.ret # "exc"))
    /\ acked' = IF res.ret # "ok" THEN acked
                ELSE IF ack = NoVector THEN Rem(acked, key)
                ELSE Upd(acked, key, ack)
    /\ writes' = writes + 1
    /\ UNCHANGED <<zkVars, held, nodeVars, threadVars, sideVars>>

\* a request that never reached a data node changes the pool at most
CallFailed(r) ==
    /\ InstallPool(r)
    /\ UNCHANGED <<zkVars, dataVars, held, nodeVars, threadVars, sideVars>>

SendPut(data, n, r) ==
    IF r.client = NoClient \/ n \notin alive THEN CallFailed(r)
    ELSE StoreWrite(data.key, n, r, put(dn[n], data, FALSE, now),
                    [vector |-> F32Vec(data.vector), metadata |-> data.metadata,
                     master |-> n, members |-> registered])

\* CoordinatorHandler.put: the write goes to the master of the shard, and to
\* no other node
CoordPut(data) ==
    /\ writes < MaxWrites
    /\ SendPut(data, get_shard_nodes(get_shard_id(data.key)).master,
               get_client(CurPool, get_shard_nodes(get_shard_id(data.key)).master))

SendDelete(key, n, r) ==
    IF r.client = NoClient \/ n \notin alive THEN CallFailed(r)
    ELSE StoreWrite(key, n, r, delete(dn[n], key, FALSE, now), NoVector)

\* CoordinatorHandler.delete
CoordDelete(key) ==
    /\ writes < MaxWrites
    /\ SendDelete(key, get_shard_nodes(get_shard_id(key)).master,
                  get_client(CurPool, get_shard_nodes(get_shard_id(key)).master))

\* the node that answers a get of the key, "" when the request reaches no node
read_node(key) ==
    IF get_shard_nodes(get_shard_id(key)).master \in Range(node_cache) \cap alive
    THEN get_shard_nodes(get_shard_id(key)).master ELSE ""

\* the response of CoordinatorHandler.get
coordinator_get(key) ==
    IF read_node(key) = "" THEN NotFound ELSE get(dn[read_node(key)], key)

\* CoordinatorHandler.get: the request borrows a client of the shard's master
CoordGet(key) ==
    /\ InstallPool(after_call(
           get_client(CurPool, get_shard_nodes(get_shard_id(key)).master),
           read_node(key) # ""))
    /\ UNCHANGED <<zkVars, dataVars, held, nodeVars, threadVars, sideVars>>

---------------------------------------------------------------------------
(* CoordinatorHandler.search: broadcast and merge *)

\* the loop over the nodes and their results: a node that failed is skipped, a
\* key that was seen before is skipped
RECURSIVE merge_results(_, _, _, _, _)
merge_results(nodes, i, q, top_k, all) ==
    IF i > Len(nodes) THEN all
    ELSE merge_results(nodes, i + 1, q, top_k,
             all \o SelectSeq(search(dn[nodes[i]], q, top_k).results,
                              LAMBDA h : \A j \in 1..Len(all) : all[j].key # h.key))

\* sorted(range(len(all_scores)), key=score): a stable sort, ascending
RECURSIVE insert_by_score(_, _)
insert_by_score(sorted, e) ==
    IF sorted = << >> THEN <<e>>
    ELSE IF Head(sorted).score <= e.score
         THEN <<Head(sorted)>> \o insert_by_score(Tail(sorted), e)
    ELSE <<e>> \o sorted

RECURSIVE sort_by_score(_)
sort_by_score(all) ==
    IF all = << >> THEN << >>
    ELSE insert_by_score(sort_by_score(SubSeq(all, 1, Len(all) - 1)), all[Len(all)])

\* sorted_indices[:top_k]
first_top_k(sorted, top_k) == SubSeq(sorted, 1, MinOf({top_k, Len(sorted)}))

\* the response of CoordinatorHandler.search; a dead node that is still in the
\* cache makes the broadcast raise
coordinator_search(q, top_k) ==
    IF node_cache = << >> \/ Range(node_cache) \ alive # {} THEN SearchFailed
    ELSE [success |-> TRUE,
          results |-> first_top_k(
              sort_by_score(merge_results(node_cache, 1, q, top_k, << >>)), top_k)]

\* the clients that the broadcast borrows and gives back, node after node
RECURSIVE search_clients(_, _)
search_clients(c, nodes) ==
    IF nodes = << >> THEN c
    ELSE IF Head(nodes) \notin alive \/ get_client(c, Head(nodes)).client = NoClient
         THEN get_client(c, Head(nodes))
    ELSE search_clients(after_call(get_client(c, Head(nodes)), TRUE), Tail(nodes))

CoordSearch(q, top_k) ==
    /\ node_cache # << >>
    /\ Len(coordinator_search(q, top_k).results) <= top_k
    /\ InstallPool(search_clients(CurPool, node_cache))
    /\ UNCHANGED <<zkVars, dataVars, held, nodeVars, threadVars, sideVars>>

\* the writes that the clients of the cluster send
ClusterWrites == {<<"a", <<2, 0>>, <<Meta1>> >>, <<"a", <<1, 2>>, NoMeta>>,
                  <<"b", <<2, 0>>, NoMeta>>}

NextCluster ==
    \/ \E n \in ClusterNodes : RegisterNode(n)
    \/ \E n \in ClusterNodes : NodeFail(n)
    \/ HealthCheck
    \/ \E w \in ClusterWrites : CoordPut(VectorData(w[1], w[2], w[3]))
    \/ \E k \in Keys : CoordDelete(k)
    \/ \E k \in Keys : CoordGet(k)
    \/ \E q \in QueryVectors, top_k \in TopKs : CoordSearch(q, top_k)

SpecCluster == Init /\ [][NextCluster]_vars

---------------------------------------------------------------------------
(* ZKManager: the one-shot child watch and the health check loop *)

\* the store, the cache and the watch as the threads of the ZKManager see them
CurZk == [znodes |-> znodes, node_cache |-> node_cache, watch |-> watch]

InstallZk(z) ==
    /\ znodes' = z.znodes
    /\ node_cache' = z.node_cache
    /\ watch' = z.watch

\* a change of the children of /nodes triggers the watch if it is set; a
\* triggered watch is gone until get_children installs it again
children_changed(z) == [z EXCEPT !.watch = IF @ = "set" THEN "event" ELSE @]

\* the cache entry is deleted and the record stays in the store
remove_from_cache_only(z, node_id) ==
    [z EXCEPT !.node_cache = SelectSeq(@, LAMBDA m : m # node_id)]

\* _remove_offline_node: the record is deleted if it exists, the cache entry
\* is deleted
remove_offline_node(z, node_id) ==
    [(IF node_id \in DOMAIN z.znodes
      THEN children_changed([z EXCEPT !.znodes = Rem(@, node_id)])
      ELSE z)
     EXCEPT !.node_cache = SelectSeq(@, LAMBDA m : m # node_id)]

\* the loop over offline_nodes of one round of _health_check_loop
RECURSIVE remove_offline_nodes(_, _)
remove_offline_nodes(z, offline_nodes) ==
    IF offline_nodes = << >> THEN z
    ELSE remove_offline_nodes(remove_offline_node(z, Head(offline_nodes)),
                              Tail(offline_nodes))

\* one round of _health_check_loop: the cached nodes whose port does not
\* answer are collected, then removed one by one
health_check_round(z) ==
    remove_offline_nodes(z, SelectSeq(z.node_cache, LAMBDA m : m \notin alive))

ProbeRound ==
    /\ health_check_round(CurZk) # CurZk
    /\ InstallZk(health_check_round(CurZk))
    /\ UNCHANGED <<alive, shards, registered, dataVars, poolVars, registering, sync,
                   nodeVars, threadVars>>

\* ZKManager.register_node: a record that does not exist is created and the
\* cache is reloaded by the caller
WatchRegister(node_id) ==
    /\ node_id \in alive
    /\ node_id \notin DOMAIN znodes
    /\ znodes' = zk_register_node(node_id)
    /\ node_cache' \in Orders((DOMAIN znodes) \cup {node_id})
    /\ watch' = children_changed(CurZk).watch
    /\ UNCHANGED <<alive, shards, registered, dataVars, poolVars, registering, sync,
                   nodeVars, threadVars>>

\* a data node that died is started again on its address
NodeStart(n) ==
    /\ n \notin alive
    /\ alive' = alive \cup {n}
    /\ UNCHANGED <<znodes, node_cache, shards, registered, dataVars, poolVars,
                   sideVars, nodeVars, threadVars>>

\* the health check loop of another process (every data node constructs a
\* ZKManager of its own) found the node unreachable and deleted its record
PeerEvict(n) ==
    /\ n \notin alive
    /\ n \in DOMAIN znodes
    /\ znodes' = Rem(znodes, n)
    /\ watch' = children_changed(CurZk).watch
    /\ UNCHANGED <<alive, node_cache, shards, registered, dataVars, poolVars,
                   registering, sync, nodeVars, threadVars>>

\* _node_change_watcher: the callback of the triggered watch reloads the cache
WatchCallback ==
    /\ watch = "event"
    /\ node_cache' \in Orders(DOMAIN znodes)
    /\ watch' = "reloaded"
    /\ UNCHANGED <<alive, znodes, shards, registered, dataVars, poolVars,
                   registering, sync, nodeVars, threadVars>>

\* _watch_nodes, called by the callback: the cache is reloaded once more
WatchReload ==
    /\ watch = "reloaded"
    /\ node_cache' \in Orders(DOMAIN znodes)
    /\ watch' = "reloaded_again"
    /\ UNCHANGED <<alive, znodes, shards, registered, dataVars, poolVars,
                   registering, sync, nodeVars, threadVars>>

\* _watch_nodes: get_children(watch=...) installs the watch; the children
\* that this call returns are not used
WatchInstall ==
    /\ watch = "reloaded_again"
    /\ watch' = "set"
    /\ UNCHANGED <<alive, znodes, node_cache, shards, registered, dataVars, poolVars,
                   registering, sync, nodeVars, threadVars>>

Watcher == WatchCallback \/ WatchReload \/ WatchInstall

NextWatch ==
    \/ \E n \in ClusterNodes : WatchRegister(n)
    \/ \E n \in ClusterNodes : NodeFail(n)
    \/ \E n \in ClusterNodes : NodeStart(n)
    \/ \E n \in ClusterNodes : PeerEvict(n)
    \/ ProbeRound
    \/ WatchCallback
    \/ WatchReload
    \/ WatchInstall

\* the callback thread and the health check thread keep running
SpecWatch ==
    /\ Init
    /\ [][NextWatch]_vars
    /\ WF_vars(Watcher)
    /\ WF_vars(ProbeRound)

---------------------------------------------------------------------------
(* CoordinatorHandler.register_node on two workers of the thread pool server *)

\* zk_manager.register_node: the record is created and the cache reloaded
RegisterCreate(w, node_id) ==
    /\ registering[w].pc = "idle"
    /\ \A v \in Workers : registering[v].node_id # node_id
    /\ znodes' = zk_register_node(node_id)
    /\ node_cache' \in IF node_id \in DOMAIN znodes THEN {node_cache}
                       ELSE Orders((DOMAIN znodes) \cup {node_id})
    /\ registering' = [registering EXCEPT ![w] =
                          [pc |-> "created", node_id |-> node_id, nodes |-> << >>,
                           shard_id |-> 0]]
    /\ UNCHANGED <<alive, shards, registered, dataVars, poolVars, watch, sync,
                   nodeVars, threadVars>>

\* nodes = list(get_all_nodes().keys()) and the assignment computed from it
RegisterReadNodes(w) ==
    /\ registering[w].pc = "created"
    /\ registering' = [registering EXCEPT ![w].pc = "mapping", ![w].nodes = node_cache]
    /\ registered' = node_cache
    /\ UNCHANGED <<alive, znodes, node_cache, shards, dataVars, poolVars, watch, sync,
                   nodeVars, threadVars>>

\* the mapping of one shard, as the worker w computed it
shard_mapping_of(w) ==
    assign_shards_to_nodes(registering[w].nodes, SHARD_COUNT, REPLICA_COUNT)

\* one iteration of the loop over shard_mapping.items(): set_shard_mapping
RegisterSetShard(w) ==
    /\ registering[w].pc = "mapping"
    /\ registering[w].shard_id < SHARD_COUNT
    /\ shards' = Upd(shards, registering[w].shard_id,
                     shard_mapping_of(w)[registering[w].shard_id])
    /\ registering' = [registering EXCEPT ![w].shard_id = @ + 1]
    /\ UNCHANGED <<alive, znodes, node_cache, registered, dataVars, poolVars, watch,
                   sync, nodeVars, threadVars>>

\* the loop is over: register_node returns its Response
RegisterReturn(w) ==
    /\ registering[w].pc = "mapping"
    /\ registering[w].shard_id = SHARD_COUNT
    /\ registering' = [registering EXCEPT ![w].pc = "returned"]
    /\ UNCHANGED <<zkVars, dataVars, poolVars, watch, sync, nodeVars, threadVars>>

NextRegister ==
    \/ \E w \in Workers, n \in ClusterNodes : RegisterCreate(w, n)
    \/ \E w \in Workers : RegisterReadNodes(w)
    \/ \E w \in Workers : RegisterSetShard(w)
    \/ \E w \in Workers : RegisterReturn(w)

SpecRegister == Init /\ [][NextRegister]_vars

---------------------------------------------------------------------------
(* Replication between the data nodes of Src/data_node: _sync_to_replicas *)

\* the calls of add_record that one client write may cause
MaxCalls == 6

\* DATA_NODE_CONFIG["replica_num"]
replica_num == 3

\* the position of a handler of add_record: its node, the call that sent the
\* request (0 for the client), the replicas it has still to send to and the
\* call it waits for
SyncCall(node, parent) ==
    [node |-> node, parent |-> parent, pc |-> "lock", todo |-> << >>, child |-> 0]

\* zk.get_children without the node itself, cut to replica_num - 1 nodes
replica_nodes(node_id, children) ==
    SubSeq(SelectSeq(children, LAMBDA n : n # node_id), 1,
           MinOf({replica_num - 1, Len(SelectSeq(children, LAMBDA n : n # node_id))}))

InstallSync(s) ==
    /\ sync' = s
    /\ UNCHANGED <<zkVars, dataVars, poolVars, watch, registering, nodeVars, threadVars>>

\* a client sends add_record to a data node
SyncClientAdd(n) ==
    /\ sync.calls = << >>
    /\ InstallSync([sync EXCEPT !.calls = <<SyncCall(n, 0)>>])

\* `with self.data_node.lock`: the worker takes the lock of its node, stores
\* the record, appends it to the WAL and adds the vector to the index
SyncApply(c, children) ==
    /\ sync.calls[c].pc = "lock"
    /\ sync.lock[sync.calls[c].node] = 0
    /\ InstallSync([sync EXCEPT
           !.lock[sync.calls[c].node] = c,
           !.applied[sync.calls[c].node] = @ + 1,
           !.calls[c].pc = "sync",
           !.calls[c].todo = replica_nodes(sync.calls[c].node, children)])

\* _sync_to_replicas: the request is sent to the next replica with the RPC
\* add_record, the one that clients call, and the worker waits for the reply
SyncSend(c) ==
    /\ sync.calls[c].pc = "sync"
    /\ sync.calls[c].todo # << >>
    /\ Len(sync.calls) < MaxCalls
    /\ InstallSync([sync EXCEPT
           !.calls = Append([@ EXCEPT ![c].pc = "wait",
                                      ![c].child = Len(sync.calls) + 1],
                            SyncCall(Head(sync.calls[c].todo), c))])

\* the replica answered: the loop goes on with the next replica
SyncReply(c) ==
    /\ sync.calls[c].pc = "wait"
    /\ sync.calls[sync.calls[c].child].pc = "done"
    /\ InstallSync([sync EXCEPT !.calls[c].pc = "sync",
                                !.calls[c].todo = Tail(@),
                                !.calls[c].child = 0])

\* no reply within the socket timeout: TTransportException is caught and the
\* loop goes on; the replica still works on the request
SyncTimeout(c) ==
    /\ sync.calls[c].pc = "wait"
    /\ sync.calls[sync.calls[c].child].pc # "done"
    /\ InstallSync([sync EXCEPT !.calls[c].pc = "sync",
                                !.calls[c].todo = Tail(@),
                                !.calls[c].child = 0])

\* the loop is over: the lock is released and add_record returns
SyncReturn(c) ==
    /\ sync.calls[c].pc = "sync"
    /\ sync.calls[c].todo = << >>
    /\ InstallSync([sync EXCEPT !.lock[sync.calls[c].node] = 0,
                                !.calls[c].pc = "done"])

NextSync ==
    \/ \E n \in ClusterNodes : SyncClientAdd(n)
    \/ \E c \in 1..Len(sync.calls), children \in Orders(ClusterNodes) :
           SyncApply(c, children)
    \/ \E c \in 1..Len(sync.calls) : SyncSend(c)
    \/ \E c \in 1..Len(sync.calls) : SyncReply(c)
    \/ \E c \in 1..Len(sync.calls) : SyncTimeout(c)
    \/ \E c \in 1..Len(sync.calls) : SyncReturn(c)

SpecSync == Init /\ [][NextSync]_vars

---------------------------------------------------------------------------
(* Vocabulary of the properties *)

\* the running node, between two requests
Cur == State(NoCrash)

\* a valid write: a single-precision vector of the configured dimension
ValidPayloads == {p \in Payloads : Len(p[1]) = VECTOR_DIM /\ IsF32Vec(p[1])}
MetaOf(m) == IF m = NoMeta THEN EmptyMap ELSE m[1]
Found(v, m) == [success |-> TRUE, vector |-> v, metadata |-> MetaOf(m)]

\* the live set: the keys GET answers, with the vector and metadata it returns
LiveKeys(s) == {k \in Keys : get(s, k).success}
LiveSet(s) ==
    [k \in LiveKeys(s) |-> [vector |-> get(s, k).vector, metadata |-> get(s, k).metadata]]

\* the node that the constructor builds on the files `s` left behind
Restarted(s) == init(s, now + 1)

\* a client's write is accepted by the model in this state
CanWrite == up /\ ClockAdvanced /\ next_hnsw_id < MaxId

IsPrefix(a, b) == Len(a) <= Len(b) /\ SubSeq(b, 1, Len(a)) = a

\* the keys and the ids of the results of every search the model issues
SearchResults(s) ==
    UNION {{search(s, q, top_k).results[i] :
               i \in 1..Len(search(s, q, top_k).results)} :
           q \in QueryVectors, top_k \in TopKs}

\* every id that the state still shows as assigned
AssignedIds(s) ==
    (DOMAIN s.hnsw_index.items) \cup s.deleted_ids
        \cup {s.leveldb[k].hnsw_id : k \in DOMAIN s.leveldb}

---------------------------------------------------------------------------
(* C1 *)

\* C1: acknowledged writes survive a restart: when a node between two requests
\* is stopped (killed, or through its exit hook) and started again, GET returns
\* for every key what it returned just before.
C1_AcknowledgedWritesSurviveRestart ==
    [][(up /\ up' /\ now' # now) =>
           \A k \in Keys : get(Cur, k)' = get(Cur, k)]_vars

---------------------------------------------------------------------------
(* C2 *)

\* C2: the WAL is append-only: in every step, every segment that has not
\* reached the age of the garbage collection is still there and its earlier
\* content is a prefix of its new content.
C2_WalAppendOnly ==
    [][\A f \in DOMAIN wal_files :
           (now' - f <= max_log_age) =>
               /\ f \in DOMAIN wal_files'
               /\ IsPrefix(wal_files[f], wal_files'[f])]_vars

---------------------------------------------------------------------------
(* C3 *)

\* the node is killed after the n-th disk write of a PUT or of a DELETE
PutKilled(k, p, n) == put(State(n), VectorData(k, p[1], p[2]), FALSE, now)
DeleteKilled(k, n) == delete(State(n), k, FALSE, now)

\* the restart recovers the live set of the entries that reached the WAL
RecoversWal(r) == r.fuel = 0 => LiveSet(Restarted(r)) = r.wal_applied

\* C3: crash recovery equals the persisted WAL prefix: wherever a PUT or a
\* DELETE is killed, the live set after the restart is the one that the WAL
\* entries persisted before the kill produce.
C3_RecoveryEqualsWalPrefix ==
    (up /\ ClockAdvanced /\ now < MaxTime) =>
        /\ \A k \in Keys, p \in ValidPayloads, n \in 1..MaxCrashPoint :
               next_hnsw_id < MaxId => RecoversWal(PutKilled(k, p, n))
        /\ \A k \in Keys, n \in 1..MaxCrashPoint : RecoversWal(DeleteKilled(k, n))

---------------------------------------------------------------------------
(* C4 *)

\* C4: PUT then GET round-trips: in every reachable state a valid PUT(k,v,m)
\* that returns success is followed by a GET(k) that succeeds with (v,m).
C4_PutGetRoundTrip ==
    CanWrite =>
        \A k \in Keys, p \in ValidPayloads :
            PutResult(k, p[1], p[2]).ret = "ok" =>
                get(PutResult(k, p[1], p[2]), k) = Found(p[1], p[2])

---------------------------------------------------------------------------
(* C5 *)

\* GET does not find k and no search returns k
Gone(s, k) ==
    /\ ~get(s, k).success
    /\ \A h \in SearchResults(s) : h.key # k

\* C5: after a successful DELETE(k), GET(k) is NotFound and no search returns
\* k, also after a restart, as long as k is not PUT again; and no search
\* returns an id of the tombstone set.
C5_DeletedStaysDeleted ==
    up =>
        /\ \A h \in SearchResults(Cur) : h.hnsw_id \notin deleted_ids
        /\ ClockAdvanced =>
               \A k \in Keys :
                   DeleteResult(k).ret = "ok" =>
                       /\ Gone(DeleteResult(k), k)
                       /\ now < MaxTime => Gone(Restarted(DeleteResult(k)), k)

---------------------------------------------------------------------------
(* C6 *)

\* what an overwrite leaves: the new value is read, the previous id is
\* tombstoned (or already dropped by the rebuild at the end of the PUT), and
\* the entry of the key carries an id that was not assigned before
Overwritten(s, r, k, p) ==
    /\ get(r, k) = Found(p[1], p[2])
    /\ \/ s.leveldb[k].hnsw_id \in r.deleted_ids
       \/ s.leveldb[k].hnsw_id \notin DOMAIN r.hnsw_index.items
    /\ k \in DOMAIN r.leveldb
    /\ r.leveldb[k].hnsw_id \notin AssignedIds(s)

\* C6: a valid PUT(k,v2) on a live key k makes GET(k) return v2, tombstones
\* the previous id of k and leaves one entry for k with a newly assigned id.
C6_Overwrite ==
    CanWrite =>
        \A k \in LiveKeys(Cur), p \in ValidPayloads :
            PutResult(k, p[1], p[2]).ret = "ok" =>
                Overwritten(Cur, PutResult(k, p[1], p[2]), k, p)

---------------------------------------------------------------------------
(* C7 *)

\* C7: on a node between two requests, the id of every KV entry is in the
\* graph with the vector of the entry and is not in the tombstone set.
C7_KvIdsInGraph ==
    up =>
        \A k \in DOMAIN leveldb :
            /\ leveldb[k].hnsw_id \in DOMAIN hnsw_index.items
            /\ hnsw_index.items[leveldb[k].hnsw_id] = leveldb[k].vector
            /\ leveldb[k].hnsw_id \notin deleted_ids

---------------------------------------------------------------------------
(* C8 *)

\* C8: an id is never reused: no two KV entries share an id, and a successful
\* PUT assigns an id greater than every id the graph, the KV store or the
\* tombstone set holds.
C8_IdNeverReused ==
    /\ up =>
           \A k1, k2 \in DOMAIN leveldb :
               leveldb[k1].hnsw_id = leveldb[k2].hnsw_id => k1 = k2
    /\ CanWrite =>
           \A k \in Keys, p \in ValidPayloads :
               PutResult(k, p[1], p[2]).ret = "ok" =>
                   \A id \in AssignedIds(Cur) :
                       PutResult(k, p[1], p[2]).leveldb[k].hnsw_id > id

---------------------------------------------------------------------------
(* C9 *)

\* C9 as the specification states it: on a node between two requests,
\* next_hnsw_id >= count(HNSW) + |tombstones|.
C9_CounterCoversCountPlusTombstones ==
    up => next_hnsw_id >= get_current_count(hnsw_index) + Cardinality(deleted_ids)

\* C9, amended: on a node between two requests, next_hnsw_id >= count(HNSW),
\* where count(HNSW) counts every id the graph holds, the tombstoned ones too.
C9_CounterCoversCount ==
    up => next_hnsw_id >= get_current_count(hnsw_index)

\* a tombstoned id is still in the graph, the counter covers the count and
\* does not cover the count plus the tombstones
C9_TombstoneStillCounted ==
    /\ up
    /\ deleted_ids \cap DOMAIN hnsw_index.items # {}
    /\ next_hnsw_id >= get_current_count(hnsw_index)
    /\ next_hnsw_id < get_current_count(hnsw_index) + Cardinality(deleted_ids)

---------------------------------------------------------------------------
(* C10 *)

\* the state a PUT has reached when it comes to its periodic maintenance
PutWritten(k, p) ==
    put_persist(put_insert(Cur, k, F32Vec(p[1]), MetaOf(p[2])),
                VectorData(k, p[1], p[2]), MetaOf(p[2]), now)

RebuildPreservesLiveSet(s) ==
    /\ \A k \in Keys :
           IF get(s, k).success
           THEN get(rebuild_hnsw_index(s), k) = get(s, k)
           ELSE ~get(rebuild_hnsw_index(s), k).success
    /\ rebuild_hnsw_index(s).deleted_ids = {}

\* C10: a rebuild preserves the live set: wherever PUT calls the rebuild (the
\* full index at its start, the periodic rebuild at its end), GET answers the
\* same for every key after it and the tombstone set is empty.
C10_RebuildPreservesLiveSet ==
    CanWrite =>
        /\ get_current_count(hnsw_index) >= hnsw_index.max_elements =>
               RebuildPreservesLiveSet(Cur)
        /\ \A k \in Keys, p \in ValidPayloads :
               (/\ ~Halted(PutWritten(k, p))
                /\ PutWritten(k, p).next_hnsw_id % RebuildInterval = 0) =>
                   RebuildPreservesLiveSet(PutWritten(k, p))

---------------------------------------------------------------------------
(* C11 *)

Ascending(results) ==
    \A i \in 1..Len(results) : \A j \in i..Len(results) :
        results[i].score <= results[j].score

\* C11: for every top_k >= 1 a search succeeds and returns exactly
\* min(top_k, live_count) results in ascending score order, whatever the number
\* of tombstoned ids that the graph still holds.
C11_SearchReturnsMinTopKLive ==
    up =>
        \A q \in QueryVectors : \A top_k \in TopKs :
            top_k >= 1 =>
                /\ search(Cur, q, top_k).success
                /\ Len(search(Cur, q, top_k).results)
                       = MinOf({top_k, Cardinality(LiveKeys(Cur))})
                /\ Ascending(search(Cur, q, top_k).results)

---------------------------------------------------------------------------
(* C12 *)

WrongDimPayloads == {p \in Payloads : Len(p[1]) # VECTOR_DIM}

\* the graph, the KV store, the tombstone set, the counter and the WAL of s and t
\* are the same
SameStores(s, t) ==
    /\ s.hnsw_index = t.hnsw_index
    /\ s.leveldb = t.leveldb
    /\ s.deleted_ids = t.deleted_ids
    /\ s.next_hnsw_id = t.next_hnsw_id
    /\ s.wal_files = t.wal_files
    /\ s.wal_tmp = t.wal_tmp
    /\ s.current_log_file = t.current_log_file

\* C12: a PUT whose vector length differs from D returns failure and leaves the
\* graph, the KV store, the tombstone set, next_hnsw_id and the WAL unchanged;
\* no vector of a length other than D is held by the graph or the KV store.
C12_DimensionEnforced ==
    /\ \A id \in DOMAIN hnsw_index.items : Len(hnsw_index.items[id]) = VECTOR_DIM
    /\ \A k \in DOMAIN leveldb : Len(leveldb[k].vector) = VECTOR_DIM
    /\ up =>
           \A k \in Keys : \A p \in WrongDimPayloads :
               /\ PutResult(k, p[1], p[2]).ret = "fail"
               /\ SameStores(PutResult(k, p[1], p[2]), Cur)

\* a node that holds a record, a tombstone and WAL entries refuses a vector of
\* another length
C12_WrongDimRefused ==
    /\ up /\ ClockAdvanced /\ next_hnsw_id < MaxId
    /\ DOMAIN leveldb # {} /\ deleted_ids # {}
    /\ \E k \in DOMAIN leveldb : \E p \in WrongDimPayloads :
           PutResult(k, p[1], p[2]).ret = "fail"

---------------------------------------------------------------------------
(* C13 *)

\* the positions of put inside `with self.index_lock`
InLock == {PutSteps[i] : i \in 1..Len(PutSteps)}

\* both threads have answered a put of the same key with success
BothPutSameKey ==
    /\ \A t \in Threads : pc[t] = "done" /\ response[t] = "ok"
    /\ request[1].key = request[2].key

ValueOf(data) == Found(F32Vec(data.vector), data.metadata)

\* C13: two concurrent PUTs on the same key are linearizable: their steps do not
\* interleave, they receive distinct hnsw_ids, the final GET returns exactly one
\* of the two values, the KV store holds a single entry for the key, and every
\* id assigned to the key other than the final one is in the tombstone set.
C13_ConcurrentPutsLinearizable ==
    /\ ~(pc[1] \in InLock /\ pc[2] \in InLock)
    /\ BothPutSameKey =>
           /\ new_hnsw_id[1] # new_hnsw_id[2]
           /\ get(Cur, request[1].key) \in {ValueOf(request[1]), ValueOf(request[2])}
           /\ request[1].key \in DOMAIN leveldb
           /\ \A t \in Threads :
                  new_hnsw_id[t] # leveldb[request[1].key].hnsw_id
                      => new_hnsw_id[t] \in deleted_ids

---------------------------------------------------------------------------
(* C19 *)

\* C19: the pool holds at most POOL_SIZE idle clients per node_id, whatever the
\* interleaving of get_client and release_client; a release that finds the pool
\* of the node full closes the released transport and leaves the pool as it is.
C19_PoolBounded ==
    /\ \A n \in DOMAIN pool : Len(pool[n]) <= RPC_POOL_SIZE
    /\ \A w \in Workers :
           (held[w] # NoClient
                /\ Len(idle_clients(pool, held[w].node)) >= RPC_POOL_SIZE) =>
               /\ release_client(CurPool, held[w]).transports[held[w].transport] = "closed"
               /\ release_client(CurPool, held[w]).pool = pool

\* a worker holds a client of a node whose pool is full, after an earlier release
\* at capacity closed a transport
C19_ReleaseAtCapacity ==
    /\ \E i \in 1..Len(transports) : transports[i] = "closed"
    /\ \E w \in Workers :
           /\ held[w] # NoClient
           /\ Len(idle_clients(pool, held[w].node)) = RPC_POOL_SIZE

---------------------------------------------------------------------------
(* C17 *)

\* the round-robin placement of the shard over the member list
RoundRobin(nodes, shard_id, i) == nodes[((shard_id + i) % Len(nodes)) + 1]

PlacedRoundRobin(mapping, nodes) ==
    /\ DOMAIN mapping = 0..(SHARD_COUNT - 1)
    /\ \A shard_id \in DOMAIN mapping :
           /\ mapping[shard_id].master = RoundRobin(nodes, shard_id, 0)
           /\ Len(mapping[shard_id].slaves) = REPLICA_COUNT
           /\ \A i \in 1..REPLICA_COUNT :
                  mapping[shard_id].slaves[i] = RoundRobin(nodes, shard_id, i)

\* C17: whenever register_node writes the shard store, the store holds, for
\* every shard s of 0..S-1, master = nodes[s mod N] and slaves =
\* [nodes[(s+i) mod N] : i = 1..R], where nodes is the member list of that
\* moment, the N children of the membership store
C17_PlacementRoundRobin ==
    [][(shards' # shards \/ registered' # registered) =>
          /\ node_cache' # << >>
          /\ Range(node_cache') = DOMAIN znodes'
          /\ Len(node_cache') = Cardinality(DOMAIN znodes')
          /\ PlacedRoundRobin(shards', node_cache')]_vars

\* a mapping was written for a member list of two nodes
C17_TwoNodesPlaced == Len(registered) = 2 /\ DOMAIN shards # {}

---------------------------------------------------------------------------
(* C18 *)

\* C18: every mapping written to the shard store has at most R-1 slaves, and
\* its master is a member of the membership store at the moment of the write
C18_SlavesBelowReplicaCount ==
    [][shards' # shards =>
          \A shard_id \in DOMAIN shards' :
              /\ Len(shards'[shard_id].slaves) <= REPLICA_COUNT - 1
              /\ shards'[shard_id].master \in DOMAIN znodes']_vars

---------------------------------------------------------------------------
(* C20 *)

\* C20: the membership record of a node is bound to the session of the data
\* node it names: once that data node has failed and its session is lost, the
\* store holds no record of it
C20_RecordBoundToNodeSession ==
    [][\A n \in alive \ alive' : n \notin DOMAIN znodes']_vars

---------------------------------------------------------------------------
(* C14 *)

\* the write of the key was acknowledged by the master of its shard, under
\* the membership of at least two nodes that is still the registered one
WrittenToMaster(k) ==
    /\ k \in DOMAIN acked
    /\ Len(acked[k].members) >= 2
    /\ acked[k].members = registered
    /\ acked[k].master = shards[get_shard_id(k)].master

\* the master of the shard is dead and evicted, one of its slaves is a live member
MasterEvictedSlaveLive(k) ==
    /\ shards[get_shard_id(k)].master \notin alive \cup Range(node_cache)
    /\ \E n \in Range(shards[get_shard_id(k)].slaves) : n \in alive \cap Range(node_cache)

\* C14: with R >= 2 and at least two registered nodes, a key whose put
\* succeeded on the master of its shard is returned with the written value by
\* coordinator.get once that master has failed and has been evicted while a
\* slave of the shard is live
C14_FailoverReadReturnsData ==
    \A k \in Keys :
        REPLICA_COUNT >= 2 /\ WrittenToMaster(k) /\ MasterEvictedSlaveLive(k) =>
            coordinator_get(k) = Found(acked[k].vector, acked[k].metadata)

---------------------------------------------------------------------------
(* C15 *)

Hit(h) == [key |-> h.key, score |-> h.score]
Hits(results) == {Hit(results[i]) : i \in 1..Len(results)}

\* the union of the results that the live member nodes return for the request
NodeHits(q, top_k) ==
    UNION {Hits(search(dn[n], q, top_k).results) : n \in Range(node_cache) \cap alive}

\* the results are the top_k best of the hits: no key twice, ascending scores,
\* at most top_k entries, all of them hits, and a hit that is left out is no
\* better than any result and is left out for top_k or for its key only
MergedTopK(results, hits, top_k) ==
    /\ \A i, j \in 1..Len(results) : i < j =>
           /\ results[i].key # results[j].key
           /\ results[i].score <= results[j].score
    /\ Len(results) <= top_k
    /\ Hits(results) \subseteq hits
    /\ \A e \in hits \ Hits(results) :
           /\ \A i \in 1..Len(results) : results[i].score <= e.score
           /\ Len(results) = top_k \/ \E i \in 1..Len(results) : results[i].key = e.key

\* C15: a successful coordinator.search returns no key twice, in ascending
\* order of score, at most top_k entries, and these are the top_k
\* smallest-score entries of the union of the results of the live nodes
C15_SearchMergesTopK ==
    \A q \in QueryVectors, top_k \in TopKs :
        coordinator_search(q, top_k).success =>
            MergedTopK(coordinator_search(q, top_k).results, NodeHits(q, top_k), top_k)

---------------------------------------------------------------------------
(* C16 *)

\* the metadata holds every key of the filter with the expected value
Satisfies(metadata, filter) == \A e \in filter : e \in metadata

\* C16: every record that a search carrying a filter returns has metadata
\* that holds, for each entry of the filter, that key with that value
C16_FilteredSearchMatches ==
    \A q \in QueryVectors, top_k \in TopKs, f \in Filters \ {{}} :
        \A i \in 1..Len(search_request(Cur, SearchRequest(q, top_k, f)).results) :
            Satisfies(Cur.leveldb[search_request(Cur, SearchRequest(q, top_k, f)).results[i].key].metadata, f)

---------------------------------------------------------------------------
(* C21 *)

\* C21: a PUT or DELETE of a client whose WAL append raises an I/O error does
\* not answer success
C21_NoSuccessWithoutWalAppend ==
    up /\ ClockAdvanced /\ next_hnsw_id < MaxId =>
        /\ \A k \in Keys, p \in Payloads :
               put_wal_error(Cur, VectorData(k, p[1], p[2]), now).ret # "ok"
        /\ \A k \in Keys : delete_wal_error(Cur, k).ret # "ok"

---------------------------------------------------------------------------
(* C22 *)

\* the put that left r aborted with an error and changed neither the counter,
\* nor the KV store, nor the WAL of s
AbortedWithoutTrace(s, r) ==
    /\ r.ret = "exc"
    /\ r.next_hnsw_id = s.next_hnsw_id
    /\ r.leveldb = s.leveldb
    /\ r.wal_files = s.wal_files
    /\ r.wal_tmp = s.wal_tmp

\* C22: a PUT whose insertion into the graph fails at the first attempt and at
\* the retry after the rebuild aborts with an error and leaves next_hnsw_id,
\* the KV store and the WAL as they were; a key that was live is still read
\* with its old value
C22_FailedInsertLeavesNoTrace ==
    up /\ ClockAdvanced /\ next_hnsw_id < MaxId =>
        \A k \in Keys, p \in ValidPayloads :
            /\ AbortedWithoutTrace(Cur, put_add_fails(Cur, VectorData(k, p[1], p[2])))
            /\ get(Cur, k).success =>
                   get(put_add_fails(Cur, VectorData(k, p[1], p[2])), k) = get(Cur, k)

---------------------------------------------------------------------------
(* C23 *)

\* the newest snapshot directory lacks one of its four parts
IncompleteSnapshot ==
    /\ checkpoint.exists
    /\ ~(/\ checkpoint.index.exists
         /\ checkpoint.leveldb.exists
         /\ checkpoint.deleted_ids.exists
         /\ checkpoint.wal_pos.exists)

\* C23: a snapshot directory that a kill inside save_checkpoint left without
\* one of its parts is not loaded by the next startup: the node starts
C23_IncompleteSnapshotNotLoaded == IncompleteSnapshot => up

---------------------------------------------------------------------------
(* C24 *)

\* the response of get on a KV store and a tombstone set
get_from(kv, tombstones, key) == get([leveldb |-> kv, deleted_ids |-> tombstones], key)

\* C24: while a PUT overwrites a live key, a GET of the key that is served
\* between two steps of the PUT answers with the old record or with the new
\* one: no step of the PUT leaves a state in which the GET fails or answers
\* anything else
C24_GetSeesOldOrNew ==
    [][\A t \in Threads :
          (/\ pc[t] \in InLock
           /\ pc'[t] # pc[t]
           /\ get_from(leveldb, deleted_ids, request[t].key).success) =>
              get_from(leveldb', deleted_ids', request[t].key)
                  \in {get_from(leveldb, deleted_ids, request[t].key), ValueOf(request[t])}]_vars

---------------------------------------------------------------------------
(* C25 *)

\* the entries that a startup on the files of s replays, in reading order
ReplayedEntries(s) ==
    IF s.checkpoint.exists /\ s.checkpoint.wal_pos.exists
    THEN incremental_entries(s, s.checkpoint.wal_pos.ts)
    ELSE << >>

\* entry i is the latest of its key: no entry of the key has a greater
\* timestamp, and none with the same timestamp comes later
LatestOfKey(entries, i) ==
    \A j \in 1..Len(entries) :
        entries[j].key = entries[i].key =>
            \/ entries[j].timestamp < entries[i].timestamp
            \/ entries[j].timestamp = entries[i].timestamp /\ j <= i

\* ops holds, for each key of the entries, the latest entry and nothing else
CollapsedByKey(entries, ops) ==
    /\ \A n, m \in 1..Len(ops) : ops[n].key = ops[m].key => n = m
    /\ \A n \in 1..Len(ops) :
           \E i \in 1..Len(entries) : ops[n] = entries[i] /\ LatestOfKey(entries, i)
    /\ \A i \in 1..Len(entries) : \E n \in 1..Len(ops) : ops[n].key = entries[i].key

\* C25: the operations that a replay of the current WAL applies are, for each
\* key, the entry with the greatest timestamp (among equal timestamps the one
\* read last), and no other entry of the key
C25_ReplayCollapsesByKey ==
    CollapsedByKey(ReplayedEntries(Cur), unique_ops(ReplayedEntries(Cur)))

\* a replay of the current WAL reads two different entries of one key
C25_TwoEntriesOfOneKey ==
    \E i, j \in 1..Len(ReplayedEntries(Cur)) :
        /\ i < j
        /\ ReplayedEntries(Cur)[i].key = ReplayedEntries(Cur)[j].key
        /\ ReplayedEntries(Cur)[i] # ReplayedEntries(Cur)[j]

---------------------------------------------------------------------------
(* C26 *)

\* every well-formed line of the segments, in reading order
RECURSIVE WellFormedLines(_, _)
WellFormedLines(files, names) ==
    IF names = << >> THEN << >>
    ELSE read_lines_to_end(files[Head(names)]) \o WellFormedLines(files, Tail(names))

\* the well-formed entries that a startup on the files of s has to replay
WellFormedEntries(s) ==
    IF s.checkpoint.exists /\ s.checkpoint.wal_pos.exists
    THEN SelectSeq(WellFormedLines(s.wal_files,
                       SortedSeq({f \in DOMAIN s.wal_files : f > s.checkpoint.wal_pos.ts})),
                   LAMBDA e : e.timestamp > s.checkpoint.wal_pos.ts)
    ELSE << >>

\* C26: a malformed line costs a replay that line only: the operations it
\* applies are those of all well-formed entries of the replayed segments,
\* the ones before and the ones after the malformed line
C26_MalformedLineSkipped ==
    unique_ops(ReplayedEntries(Cur)) = unique_ops(WellFormedEntries(Cur))

---------------------------------------------------------------------------
(* C27 *)

\* r was computed from s without a change to the WAL or to the snapshot
ReplayKeepsWal(s, r) ==
    /\ r.wal_files = s.wal_files
    /\ r.wal_tmp = s.wal_tmp
    /\ r.checkpoint = s.checkpoint

\* C27: a replay never re-logs: a PUT or a DELETE applied in replay mode, and
\* a startup with its replay of the WAL, append no entry to the WAL and take
\* no snapshot; the segments are the same after as before
C27_ReplayNeverRelogs ==
    /\ \A k \in Keys, p \in Payloads :
           ReplayKeepsWal(Cur, put(Cur, VectorData(k, p[1], p[2]), TRUE, now))
    /\ \A k \in Keys : ReplayKeepsWal(Cur, delete(Cur, k, TRUE, now))
    /\ ReplayKeepsWal(Cur, init(Cur, now + 1))

\* a startup on the current files replays a PUT of the WAL
C27_ReplayAppliesPut ==
    /\ up
    /\ \E i \in 1..Len(unique_ops(ReplayedEntries(Cur))) :
           unique_ops(ReplayedEntries(Cur))[i].op_type = "PUT"

---------------------------------------------------------------------------
(* C28 *)

\* r is s after a rebuild that repacked the live records: the graph holds the
\* ids 0..live_count-1, every KV entry names the id of its vector, the counter
\* is live_count, and the snapshot is one of the rebuilt state
RepackedDensely(s, r) ==
    /\ DOMAIN r.hnsw_index.items = 0..(Cardinality(valid_ids(s)) - 1)
    /\ \A k \in DOMAIN r.leveldb :
           /\ r.leveldb[k].hnsw_id \in DOMAIN r.hnsw_index.items
           /\ r.hnsw_index.items[r.leveldb[k].hnsw_id] = r.leveldb[k].vector
    /\ r.next_hnsw_id = Cardinality(valid_ids(s))
    /\ r.checkpoint.exists
    /\ r.checkpoint.index.items = r.hnsw_index.items
    /\ r.checkpoint.leveldb.data = r.leveldb

\* C28: a rebuild of a running node with live records repacks the ids densely
\* and writes a snapshot of the rebuilt state
C28_RebuildRepacksDensely ==
    (up /\ valid_ids(Cur) # {}) => RepackedDensely(Cur, rebuild_hnsw_index(Cur))

---------------------------------------------------------------------------
(* C29 *)

Cached(n) == n \in Range(node_cache)

\* no node of the recorded mapping of the shard is in the membership cache
NoneCached(shard_id) ==
    /\ ~Cached(shards[shard_id].master)
    /\ \A i \in 1..Len(shards[shard_id].slaves) : ~Cached(shards[shard_id].slaves[i])

\* the recorded master when it is cached, otherwise the first cached slave in
\* the recorded order
SelectsEffectiveMaster(shard_id) ==
    /\ Cached(shards[shard_id].master) =>
           get_shard_nodes(shard_id).master = shards[shard_id].master
    /\ \A i \in 1..Len(shards[shard_id].slaves) :
           (/\ ~Cached(shards[shard_id].master)
            /\ Cached(shards[shard_id].slaves[i])
            /\ \A j \in 1..(i - 1) : ~Cached(shards[shard_id].slaves[j])) =>
               get_shard_nodes(shard_id).master = shards[shard_id].slaves[i]

\* the put of the key returns before a client is borrowed
PutSendsNothing(k) ==
    get_client(CurPool, get_shard_nodes(get_shard_id(k)).master).client = NoClient

---------------------------------------------------------------------------
(* C30 *)

\* the step borrowed the idle client of the dead node n and did not give it
\* back: the call through it failed with a transport error
CallRaised(n) ==
    /\ n \in Range(node_cache) \ alive
    /\ idle_clients(pool, n) # << >>
    /\ idle_clients(pool', n) = Tail(idle_clients(pool, n))

\* C30: when the call to a data node fails with a transport error, the
\* coordinator closes the client it used, keeps it out of the pool and removes
\* the node from its membership view
C30_TransportFailureHandled ==
    [][\A n \in ClusterNodes :
           CallRaised(n) =>
               /\ transports'[Head(idle_clients(pool, n))] = "closed"
               /\ n \notin Range(node_cache')]_vars

---------------------------------------------------------------------------
(* C31 *)

\* the cached nodes that answer a request
Answering == SelectSeq(node_cache, LAMBDA n : n \in alive)

\* C31: while one cached node answers, a search succeeds with the merged
\* results of the nodes that answered; a node whose call fails is left out
C31_SearchToleratesFailedNode ==
    \A q \in QueryVectors, top_k \in TopKs :
        Answering # << >> =>
            /\ coordinator_search(q, top_k).success
            /\ coordinator_search(q, top_k).results =
                   first_top_k(sort_by_score(merge_results(Answering, 1, q, top_k, << >>)),
                               top_k)

---------------------------------------------------------------------------
(* C34 *)

\* C34: after every registration and every eviction the shard map is the
\* assignment of the current member list, so every recorded master is a
\* current member
C34_PlacementFollowsMembership ==
    shards # EmptyFn =>
        /\ shards = assign_shards_to_nodes(node_cache, SHARD_COUNT, REPLICA_COUNT)
        /\ \A shard_id \in DOMAIN shards : shards[shard_id].master \in Range(node_cache)

---------------------------------------------------------------------------
(* C38 *)

\* the slaves of the mapping are nodes other than the master, each named once
DistinctReplicas(mapping) ==
    /\ mapping.master \notin Range(mapping.slaves)
    /\ \A i, j \in 1..Len(mapping.slaves) :
           mapping.slaves[i] = mapping.slaves[j] => i = j

\* C38: every shard mapping that assign_shards_to_nodes produced for the
\* members (one node or more) has a slave list without the shard's master and
\* without a node named twice
C38_SlavesDistinctFromMaster ==
    registered # << >> =>
        \A shard_id \in 0..(SHARD_COUNT - 1) :
            DistinctReplicas(
                assign_shards_to_nodes(registered, SHARD_COUNT, REPLICA_COUNT)[shard_id])

---------------------------------------------------------------------------
(* C36 *)

\* C36: a DELETE of a key leaves the answer of a GET of every other key as it
\* was
C36_DeleteTouchesOwnKeyOnly ==
    up => \A k, other \in Keys :
              k # other => get(delete(Cur, k, FALSE, now), other) = get(Cur, other)

---------------------------------------------------------------------------
(* C39 *)

\* C39: a key that several nodes return is carried by the merged result with
\* the smallest of the scores that the nodes return for it
C39_DuplicateKeyKeepsBestScore ==
    \A q \in QueryVectors, top_k \in TopKs :
        coordinator_search(q, top_k).success =>
            \A i \in 1..Len(coordinator_search(q, top_k).results) :
                \A e \in NodeHits(q, top_k) :
                    e.key = coordinator_search(q, top_k).results[i].key =>
                        coordinator_search(q, top_k).results[i].score <= e.score

---------------------------------------------------------------------------
(* C40 *)

\* the transports that are idle in the pool
IdleTransports == UNION {Range(pool[n]) : n \in DOMAIN pool}

\* C40: a client that get_client handed out is held by one borrower at most,
\* and is not idle in the pool while a borrower holds it
C40_PoolExclusive ==
    /\ \A w1, w2 \in Workers :
           (w1 # w2 /\ held[w1] # NoClient) => held[w1].transport # held[w2].transport
    /\ \A w \in Workers :
           held[w] # NoClient => held[w].transport \notin IdleTransports
    /\ \A n \in DOMAIN pool : \A i, j \in 1..Len(pool[n]) :
           pool[n][i] = pool[n][j] => i = j

\* both workers hold a client of one node, after clients were released and
\* one release found the pool full
C40_TwoBorrowersOfOneNode ==
    /\ held[1] # NoClient
    /\ held[2] # NoClient
    /\ held[1].node = held[2].node
    /\ \E i \in 1..Len(transports) : transports[i] = "closed"

---------------------------------------------------------------------------
(* C32 *)

\* C32: once the set of node records in the store stops changing, the cache
\* comes to equal it and stays equal: no change is lost between a reload of
\* the cache and the installation of the next watch
C32_CacheConverges ==
    (<>[][znodes' = znodes]_vars) => <>[](Range(node_cache) = DOMAIN znodes)

---------------------------------------------------------------------------
(* C33 *)

\* the cached nodes whose TCP connect fails
Unreachable == {n \in Range(node_cache) : n \notin alive}

---------------------------------------------------------------------------
(* C37 *)

\* C37: when the concurrent register_node calls have returned, the shard map
\* in the store is the assignment of one single node list, the one that one
\* of the calls read
C37_OnePlacementAfterRegistrations ==
    (\A w \in Workers : registering[w].pc = "returned") =>
        \E w \in Workers : shards = shard_mapping_of(w)

---------------------------------------------------------------------------
(* C35 *)

\* the call h waits for the reply of d, or of a call that waits for d
RECURSIVE WaitsFor(_, _)
WaitsFor(h, d) ==
    /\ sync.calls[h].pc = "wait"
    /\ sync.calls[h].child = d \/ WaitsFor(sync.calls[h].child, d)

\* the call d waits for the lock of its node, and the holder of that lock
\* waits for d
WaitsOnEachOther(d) ==
    /\ sync.calls[d].pc = "lock"
    /\ sync.lock[sync.calls[d].node] # 0
    /\ WaitsFor(sync.lock[sync.calls[d].node], d)

\* C35: a write that a node received from another node is not forwarded again,
\* every node other than the one the client called applies the write once at
\* most, and no two handlers wait on each other
C35_ReplicaDoesNotForward ==
    /\ \A c \in 1..Len(sync.calls) :
           sync.calls[c].parent # 0 => sync.calls[sync.calls[c].parent].parent = 0
    /\ \A n \in ClusterNodes :
           (sync.calls # << >> /\ n # sync.calls[1].node) => sync.applied[n] <= 1
    /\ \A c \in 1..Len(sync.calls) : ~WaitsOnEachOther(c)

====
